---- MODULE Spec2Model ----
(***************************************************************************)
(* The two readiness-driven event loops of wasmcp and the asyncio objects  *)
(* they drive.                                                             *)
(*                                                                         *)
(*   impl = "sdk"       sdk/python/wasi-http-async/.../poll_loop.py        *)
(*   impl = "examples"  examples/weather/python/poll_loop.py               *)
(*                                                                         *)
(* State shared by the two classes is held in one set of variables:        *)
(*   queue     sdk PollLoop._ready      examples PollLoop.handles          *)
(*   wait      sdk PollLoop._futures    examples PollLoop.wakers           *)
(*   running   sdk PollLoop._running    examples PollLoop.running          *)
(*   stopping  sdk PollLoop._stopping   (sdk only)                         *)
(*   exception examples PollLoop.exception (examples only)                 *)
(*   scheduled sdk PollLoop._scheduled  (sdk only)                         *)
(*   closed    sdk PollLoop._closed     (sdk only)                         *)
(* The examples loop learns of a failed task nobody asked for its result   *)
(* when the task object is freed (asyncio's Future.__del__ calls           *)
(* loop.call_exception_handler), so for that loop the model follows who    *)
(* refers to a future: user code (kept), queued handles, the locals        *)
(* `future`, `handles` and `handle` of a run_until_complete frame, and the *)
(* frames an exception's traceback keeps alive (retained, futs[f].tb).     *)
(* In the sdk loop references matter in one place: a pending task nothing  *)
(* refers to any more is destroyed and its coroutine closed, which runs    *)
(* the finally clause of register() (Abandoned, Reclaimed).                *)
(* The sdk loop's _timer grows by 0.001 with every _run_once and is read   *)
(* only to compare it with the `when` of a TimerHandle, so each entry of   *)
(* scheduled keeps `due`, the number of _run_once calls that must end      *)
(* before when <= _timer holds, instead of the two floats.                 *)
(*                                                                         *)
(* Host list indices are 0-based in the code and 1-based here.             *)
(***************************************************************************)
EXTENDS Integers, Sequences, FiniteSets, TLC

\* ------------------------------------------------------------ bounds
MaxTasks == 2        \* tasks (coroutines wrapped in asyncio.Task) ever created
MaxAwaits == 2       \* awaits of register() one coroutine performs
MaxCalls == 2        \* user callbacks ever scheduled with call_soon
MaxRuns == 2         \* top-level run_until_complete calls
MaxReady == 2        \* length of the index list one host poll returns
MaxDepth == 2        \* nesting depth of run_until_complete frames
MaxUserFutures == 1  \* futures obtained by user code from create_future()
MaxNotYet == 2       \* 'not yet' answers of one host response future
MaxChunks == 2       \* non-empty chunks one host body stream delivers
MaxEmpty == 1        \* zero-length reads one host body stream answers
MaxBodyCalls == 3    \* text()/bytes()/json()/read() calls on one response
MaxOverlap == 1      \* body calls of a second task during the first one's drain
MaxDelay == 2        \* delay of a call_later, in _run_once calls until it is due

VARIABLES
  impl,       \* which PollLoop class the loop instance is
  scenario,   \* the kind of user program driving the loop
  futs,       \* every asyncio future created on the loop, by id
  tasks,      \* every asyncio.Task: its program position and what it awaits
  pollables,  \* host pollables handed out by subscribe(): times closed
  queue,      \* ready queue of asyncio.Handle objects
  wait,       \* wait table: entries (future, pollable) in insertion order
  running,    \* the loop's running flag
  stopping,   \* sdk: _stopping
  scheduled,  \* sdk: _scheduled, the TimerHandles not yet due, by `when`
  closed,     \* sdk: _closed
  exception,  \* examples: self.exception ("none" when None)
  retained,   \* examples: what the frames kept alive by exceptions refer to
  nseq,       \* handles that entered the ready queue so far (stamps each with its order)
  stack,      \* active run_until_complete frames, innermost last
  runs,       \* top-level run_until_complete calls made so far
  ncalls,     \* user callbacks scheduled so far
  outcome,    \* how the last finished run_until_complete call ended
  reent,      \* what the last re-entrant run_until_complete call did
  err,        \* error raised by the last user set_result/set_exception
  lastPoll,   \* pollables passed to the host poll of this iteration
  lastReady,  \* indices that poll returned
  pollLog,    \* close/resolve events of this iteration's poll, in order
  \* One HTTP exchange made by one task (fetch/send, then the body):
  client,     \* which client code runs the exchange
  request,    \* what the caller passed to fetch: headers, json, body
  sent,       \* the header list of the outgoing request, once built
  pc,         \* the task's position in the client code
  host,       \* what the host has been asked so far and has answered
  fetched,    \* how fetch()/send() ended
  response,   \* the FetchResponse: _body_consumed and _cached_body
  reader,     \* the Stream wrapper in use and the read in progress
  call,       \* the text()/bytes()/json()/read() call in progress
  results,    \* how the finished calls ended, in call order
  overlap     \* how a second task's calls made during the drain ended

loopVars == <<impl, scenario, futs, tasks, pollables, queue, wait, running,
              stopping, scheduled, closed, exception, retained, nseq, stack, runs,
              ncalls, outcome, reent, err, lastPoll, lastReady, pollLog>>

httpVars == <<client, request, sent, pc, host, fetched, response, reader,
              call, results, overlap>>

vars == <<impl, scenario, futs, tasks, pollables, queue, wait, running, stopping,
          scheduled, closed, exception, retained, nseq, stack, runs, ncalls, outcome,
          reent, err, lastPoll, lastReady, pollLog, client, request, sent, pc, host,
          fetched, response, reader, call, results, overlap>>

Impls == {"sdk", "examples"}
Outcomes == {"result", "exception"}

\* The user programs explored, each within its own share of the bounds:
\*   "tasks"      coroutines that await pollables, run one after the other
\*   "callbacks"  plain callbacks (also raising, rescheduling, cancelled,
\*                re-entering) next to a task
\*   "futures"    futures from create_future() resolved by user code, next
\*                to a task
\*   "control"    the loop's other public methods next to a task: stop,
\*                close, run_forever, call_later, call_at and
\*                call_exception_handler
\*   "nested"     two tasks next to one callback that re-enters the loop
\*                or stops it
\*   "cancel"     coroutines that await pollables next to a callback that
\*                calls task.cancel()
Scenarios == {"tasks", "callbacks", "futures", "control", "nested", "cancel"}

TaskCap ==
  CASE scenario = "tasks" -> MaxTasks
    [] scenario = "cancel" -> MaxTasks
    [] scenario = "nested" -> MaxTasks
    [] OTHER -> MaxTasks - 1

CallCap ==
  CASE scenario = "tasks" -> 0
    [] scenario = "callbacks" -> MaxCalls
    [] scenario = "control" -> MaxCalls
    [] OTHER -> MaxCalls - 1

FutureCap == IF scenario = "futures" THEN MaxUserFutures ELSE 0

Behaviours ==
  CASE scenario = "callbacks" ->
         {"nop", "raise", "again", "reenter", "reenter-raise"}
    [] scenario = "futures" -> {"nop", "resolve"}
    [] scenario = "control" -> {"stop", "close"}
    [] scenario = "nested" -> {"stop", "reenter"}
    [] OTHER -> {}

NoOutcome == [kind |-> "none", what |-> "none", fut |-> 0, value |-> 0]

\* ------------------------------------------------------------ loop state
\* The part of the state callbacks act on, as one record.
LoopState ==
  [futs |-> futs, tasks |-> tasks, pollables |-> pollables, queue |-> queue,
   wait |-> wait, running |-> running, stopping |-> stopping,
   scheduled |-> scheduled, closed |-> closed,
   exception |-> exception, retained |-> retained, frames |-> stack,
   nseq |-> nseq, ncalls |-> ncalls, err |-> err, pollLog |-> pollLog,
   impl |-> impl]

\* The state s becomes the state of the program (s is worked out once).
Commit(s) ==
  \E c \in {s} :
    /\ futs' = c.futs
    /\ tasks' = c.tasks
    /\ pollables' = c.pollables
    /\ queue' = c.queue
    /\ wait' = c.wait
    /\ running' = c.running
    /\ stopping' = c.stopping
    /\ scheduled' = c.scheduled
    /\ closed' = c.closed
    /\ exception' = c.exception
    /\ retained' = c.retained
    /\ nseq' = c.nseq
    /\ ncalls' = c.ncalls
    /\ err' = c.err
    /\ pollLog' = c.pollLog

\* asyncio.Handle(callback, args, self, context)
Handle(kind, task, fut, beh, seq) ==
  [kind |-> kind, task |-> task, fut |-> fut, beh |-> beh, seq |-> seq,
   cancelled |-> FALSE]

\* A plausible slip: the new handle is put at the front of the queue.
call_soon_front(s, kind, task, fut, beh) ==
  [s EXCEPT !.queue = <<Handle(kind, task, fut, beh, s.nseq + 1)>> \o @,
            !.nseq = @ + 1]

\* PollLoop.call_soon: a new Handle is appended to the ready queue.
call_soon(s, kind, task, fut, beh) ==
  [s EXCEPT !.queue = Append(@, Handle(kind, task, fut, beh, s.nseq + 1)),
            !.nseq = @ + 1]

\* PollLoop.create_future: a fresh pending asyncio future with no callbacks.
\* logtb is asyncio's __log_traceback (the future holds an exception nobody
\* has retrieved), freed tells that the object is gone. kept tells that user
\* code holds a reference to the future; tb is what the frames refer to that
\* the traceback of the future's exception keeps alive.
NewFuture(kind) ==
  [kind |-> kind, state |-> "pending", value |-> 0, cbs |-> <<>>,
   logtb |-> FALSE, freed |-> FALSE, kept |-> FALSE, tb |-> {}]

create_future(s, kind) == [s EXCEPT !.futs = Append(@, NewFuture(kind))]

Done(s, f) == s.futs[f].state # "pending"

Range(q) == {q[i] : i \in 1..Len(q)}

\* asyncio Future.__schedule_callbacks: each done callback is handed to
\* loop.call_soon, in the order it was added, and the list is cleared.
RECURSIVE ScheduleAll(_, _, _)
ScheduleAll(s, f, cbs) ==
  IF cbs = <<>> THEN s
  ELSE ScheduleAll(call_soon(s, Head(cbs).kind, Head(cbs).task, f, "nop"),
                   f, Tail(cbs))

\* asyncio Future.set_result / set_exception on a future of the loop:
\* InvalidStateError and no change when the future is already done.
\* set_exception marks the exception as not yet retrieved.
set_result(s, f, st, v) ==
  IF Done(s, f) THEN [s EXCEPT !.err = "InvalidStateError"]
  ELSE ScheduleAll([s EXCEPT !.futs[f].state = st, !.futs[f].value = v,
                             !.futs[f].cbs = <<>>,
                             !.futs[f].logtb = (st = "exception"),
                             !.err = "none"],
                   f, s.futs[f].cbs)

\* asyncio Future.add_done_callback: call_soon at once when already done.
add_done_callback(s, f, kind, task) ==
  IF Done(s, f) THEN call_soon(s, kind, task, f, "nop")
  ELSE [s EXCEPT !.futs[f].cbs = Append(@, [kind |-> kind, task |-> task])]

\* ------------------------------------------------------------ coroutines
\* A coroutine is: `awaits` times  await register(loop, x.subscribe()),
\* then return (oc = "result") or raise (oc = "exception").

\* asyncio.Task(coro, loop=self): the task is itself a future of the loop and
\* its constructor schedules the first step with loop.call_soon.
create_task(s, n, oc) ==
  LET s1 == create_future(s, "task")
      t == Len(s.tasks) + 1
      s2 == [s1 EXCEPT !.tasks = Append(@, [fut |-> Len(s1.futs), awaits |-> n,
                                          oc |-> oc, waitingOn |-> 0,
                                          waker |-> 0, mustCancel |-> FALSE])]
  IN call_soon(s2, "step", t, 0, "nop")

\* register(): up to the await. A fresh future is created and entered in the
\* wait table with the pollable; awaiting it makes the task add its wakeup as
\* the future's done callback (asyncio Task.__step).
register(s, t) ==
  LET s1 == create_future(s, "waker")
      f == Len(s1.futs)
      p == Len(s.pollables) + 1
      s2 == [s1 EXCEPT !.pollables = Append(@, [closed |-> 0, owner |-> t]),
                       !.wait = Append(@, [fut |-> f, pollable |-> p]),
                       !.tasks[t].awaits = @ - 1,
                       !.tasks[t].waitingOn = p,
                       !.tasks[t].waker = f]
  IN add_done_callback(s2, f, "wakeup", t)

\* register(): after the await. sdk: finally: del loop._futures[future];
\* examples: nothing follows the await.
register_resume(s, t) ==
  [s EXCEPT !.wait = IF s.impl = "sdk"
                     THEN SelectSeq(@, LAMBDA e: e.fut # s.tasks[t].waker)
                     ELSE @,
            !.tasks[t].waitingOn = 0,
            !.tasks[t].waker = 0]

\* asyncio Task.__step with CancelledError leaving the coroutine: the task's
\* own future is cancelled (super().cancel()) and _must_cancel is cleared.
TaskCancelled(s, t) ==
  [set_result(s, s.tasks[t].fut, "cancelled", 0)
     EXCEPT !.err = s.err, !.tasks[t].mustCancel = FALSE]

\* asyncio Task.__step: run the coroutine to its next await or to its end,
\* where the task's own future gets the result or the exception (an
\* exception is marked for logging until somebody retrieves it).
\* With _must_cancel set, CancelledError is thrown into the coroutine instead,
\* which does not catch it: the task ends cancelled.
TaskStep(s, t) ==
  IF s.tasks[t].mustCancel THEN TaskCancelled(s, t)
  ELSE IF s.tasks[t].awaits > 0 THEN register(s, t)
  ELSE [set_result(s, s.tasks[t].fut, s.tasks[t].oc, t) EXCEPT !.err = s.err]

\* asyncio Task.__wakeup: the awaited future is done, the coroutine goes on;
\* a cancelled future makes the await raise CancelledError. Either way
\* register() is left first.
TaskWakeup(s, t) ==
  IF s.futs[s.tasks[t].waker].state = "cancelled"
  THEN TaskCancelled(register_resume(s, t), t)
  ELSE TaskStep(register_resume(s, t), t)

\* asyncio Task.cancel: _log_traceback is cleared; then nothing for a
\* finished task; a pending awaited future is cancelled, which schedules the
\* task's wakeup; otherwise _must_cancel is set for the task's next step.
task_cancel(s, t) ==
  LET s1 == [s EXCEPT !.futs[s.tasks[t].fut].logtb = FALSE]
  IN IF Done(s, s.tasks[t].fut) THEN s1
     ELSE IF s.tasks[t].waker # 0 /\ ~Done(s, s.tasks[t].waker)
     THEN [set_result(s1, s.tasks[t].waker, "cancelled", 0) EXCEPT !.err = s.err]
     ELSE [s1 EXCEPT !.tasks[t].mustCancel = TRUE]

\* ------------------------------------------------------------ sdk timers
\* A TimerHandle waiting in _scheduled.
Timer(h, due) == [h |-> h, due |-> due]

\* _scheduled.append(timer_handle); _scheduled.sort(key=when): the new
\* handle goes behind the entries whose `when` is no later than its own
\* (the sort is stable). place is the number of those entries.
Scheduled(q, e, place) ==
  SubSeq(q, 1, place) \o <<e>> \o SubSeq(q, place + 1, Len(q))

\* The places a handle that is due after `due` calls of _run_once can take:
\* entries due earlier have an earlier `when`, entries due later a later
\* one, and among the entries due in the same call the exact delays decide.
Places(q, due) ==
  {k \in 0..Len(q) :
     /\ \A i \in 1..k : q[i].due <= due
     /\ \A i \in (k + 1)..Len(q) : q[i].due >= due}

\* sdk PollLoop.call_later: call_soon for delay <= 0, otherwise a TimerHandle
\* for the same callback with when = _timer + delay. A delay d > 0 stands
\* for any delay in (0.001 (d - 1), 0.001 d): the handle is due once d calls
\* of _run_once have ended. beh is the callback; a TimerHandle has kind
\* "timer" (its cancel() differs from a Handle's) and runs like a Handle.
call_later(s, delay, place, beh) ==
  IF delay <= 0 THEN call_soon(s, "user", 0, 0, beh)
  ELSE [s EXCEPT !.scheduled =
                    Scheduled(@, Timer(Handle("timer", 0, 0, beh, 0), delay),
                              place)]

\* sdk PollLoop.call_at: delay = when - self._timer, then call_later. `when`
\* is given relative to the loop's time(), as user code computes it.
call_at(s, when, place, beh) == call_later(s, when, place, beh)

\* _run_once, its first loop: the handles at the head of _scheduled that are
\* due are moved to the end of _ready. A handle's seq is its place in the
\* order in which handles entered the ready queue, so a timer handle gets
\* it here.
RECURSIVE MoveDue(_)
MoveDue(s) ==
  IF s.scheduled # <<>> /\ Head(s.scheduled).due <= 0
  THEN MoveDue([s EXCEPT
                  !.queue = Append(@, [Head(s.scheduled).h
                                         EXCEPT !.seq = s.nseq + 1]),
                  !.nseq = @ + 1,
                  !.scheduled = Tail(@)])
  ELSE s

\* _run_once, its last line: self._timer += 0.001.
Tick(s) ==
  [s EXCEPT !.scheduled = [i \in 1..Len(@) |-> [@[i] EXCEPT !.due = @ - 1]]]

\* PollLoop.close. sdk: RuntimeError while running, nothing when closed
\* already, otherwise _closed is set and _ready and _scheduled are cleared.
\* examples: self.running = False.
close(s) ==
  IF s.impl = "examples" THEN [s EXCEPT !.running = FALSE]
  ELSE IF s.running \/ s.closed THEN s
  ELSE [s EXCEPT !.closed = TRUE, !.queue = <<>>, !.scheduled = <<>>]

\* PollLoop.stop: the sdk sets _stopping (it is also the done callback its
\* run_until_complete adds), the examples loop clears self.running.
stop(s) ==
  IF s.impl = "sdk" THEN [s EXCEPT !.stopping = TRUE]
  ELSE [s EXCEPT !.running = FALSE]

\* A plausible slip: the handler drops the exception.
call_exception_handler_drop(s, exc) == s

\* examples PollLoop.call_exception_handler:
\* self.exception = context.get("exception", None). exc is the exception of
\* the context, "none" for a context without one.
call_exception_handler(s, exc) == [s EXCEPT !.exception = exc]

\* ------------------------------------------------------------ references
\* (examples loop) Which futures are referred to, and by what. A future
\* that holds an unretrieved exception is finalized as soon as nothing
\* refers to it, and its finalizer calls loop.call_exception_handler.

\* What pins a frame of the stack beyond its own call: a frame of a nested
\* call that an exception's traceback keeps alive keeps its callers' frames
\* alive too (f_back), and so does the frame of Handle._run in the traceback
\* of a callback's exception. loop: the exception in self.exception; futs:
\* the exceptions of these futures; limbo: unreachable cycles.
NoPin == [loop |-> FALSE, limbo |-> FALSE, futs |-> {}]

\* retained: shared tells that the exception in self.exception is part of a
\* cycle, tb is what the frames in its traceback refer to, limbo what
\* unreachable cycles refer to.
NoRetained == [shared |-> FALSE, tb |-> {}, limbo |-> {}]
ByLoop == [loop |-> TRUE, limbo |-> FALSE, futs |-> {}]
ByFuture(f) == [loop |-> FALSE, limbo |-> FALSE, futs |-> {f}]

\* The future a handle refers to through its callback and arguments (0 for
\* none): the task of a step or wakeup, the task of a t.cancel, the future a
\* resolving callback was given. Handle.cancel() drops callback and arguments.
Ref(s, h) ==
  IF h.cancelled THEN 0
  ELSE CASE h.kind \in {"step", "wakeup"} -> s.tasks[h.task].fut
         [] h.kind = "user" /\ h.beh = "cancel" -> s.tasks[h.task].fut
         [] h.kind = "user" /\ h.beh = "resolve" -> h.fut
         [] OTHER -> 0

\* The locals of a run_until_complete frame: `future`, `handle` (the handle
\* the for loop bound last) and `handles` (the list the iteration took).
FrameRefs(s, fr) ==
  {fr.top, fr.held} \cup {Ref(s, fr.pending0[i]) : i \in 1..Len(fr.pending0)}

\* What is referred to from outside the futures: by user code, by
\* self.handles, by the frames of the calls in progress, by the frames in the
\* traceback of self.exception, by unreachable cycles not yet collected.
Roots(s) ==
  {f \in 1..Len(s.futs) : s.futs[f].kept}
    \cup {Ref(s, s.queue[i]) : i \in 1..Len(s.queue)}
    \cup UNION {FrameRefs(s, s.frames[i]) : i \in 1..Len(s.frames)}
    \cup s.retained.tb \cup s.retained.limbo

\* A future that is referred to keeps alive what its exception's traceback
\* refers to.
RECURSIVE Reachable(_, _)
Reachable(s, L) ==
  LET N == L \cup UNION {s.futs[f].tb : f \in L \ {0}}
  IN IF N = L THEN L ELSE Reachable(s, N)

Live(s) == Reachable(s, Roots(s))

\* The frames get another pin.
Pinned(s, by) ==
  [s EXCEPT !.frames =
     [i \in 1..Len(@) |->
        [@[i] EXCEPT !.pin = [loop |-> @.loop \/ by.loop,
                              limbo |-> @.limbo \/ by.limbo,
                              futs |-> @.futs \cup by.futs]]]]

\* self.exception is about to be assigned: the exception it held loses the
\* loop's reference. An exception that came through Handle._run is part of a
\* cycle (the context dictionary is a local of a frame in its traceback), so
\* what its traceback keeps alive stays until the cycle is collected;
\* otherwise the traceback's frames are released at once.
Replaced(s) ==
  IF s.retained.shared
  THEN [s EXCEPT !.retained.limbo = @ \cup s.retained.tb,
                 !.retained.tb = {},
                 !.frames = [i \in 1..Len(@) |->
                               [@[i] EXCEPT !.pin.limbo = @ \/ s.frames[i].pin.loop,
                                            !.pin.loop = FALSE]]]
  ELSE [s EXCEPT !.retained.tb = {},
                 !.frames = [i \in 1..Len(@) |-> [@[i] EXCEPT !.pin.loop = FALSE]]]

\* loop.call_exception_handler({'exception': exc, ...}) with an exception
\* object other than the one the loop holds. cyclic: the call is Handle._run's.
Stored(s, exc, cyclic) ==
  [call_exception_handler(Replaced(s), exc) EXCEPT !.retained.shared = cyclic]

\* Futures nobody refers to any more let go of what their exception's
\* traceback kept alive: that is now an unreachable cycle.
Settle(s) ==
  LET L == Live(s)
      dead == {f \in 1..Len(s.futs) :
                 /\ f \notin L
                 /\ \/ s.futs[f].tb # {}
                    \/ \E i \in 1..Len(s.frames) : f \in s.frames[i].pin.futs}
  IN [s EXCEPT !.retained.limbo = @ \cup UNION {s.futs[f].tb : f \in dead},
               !.futs = [f \in 1..Len(@) |->
                           IF f \in dead THEN [@[f] EXCEPT !.tb = {}] ELSE @[f]],
               !.frames = [i \in 1..Len(@) |->
                             [@[i] EXCEPT
                                !.pin.limbo = @ \/ (s.frames[i].pin.futs \cap dead # {}),
                                !.pin.futs = @ \ dead]]]

\* The futures to finalize: an exception nobody retrieved, and no reference.
Finalizable(s) ==
  {f \in 1..Len(s.futs) :
     s.futs[f].logtb /\ ~s.futs[f].freed /\ f \notin Live(s)}

\* asyncio Future.__del__ for the futures of F: each reports its exception
\* with loop.call_exception_handler({..., 'exception': exc}).
future_del(s, F) ==
  Stored([s EXCEPT !.futs = [f \in 1..Len(@) |->
                               IF f \in F
                               THEN [@[f] EXCEPT !.logtb = FALSE, !.freed = TRUE]
                               ELSE @[f]]],
         "exception", FALSE)

\* References have gone: whatever is finalizable is finalized, which may let
\* go of more (the handler replaces self.exception).
RECURSIVE Collect(_)
Collect(s) ==
  CHOOSE r \in {LET s1 == Settle(x)
                    F == Finalizable(s1)
                IN IF x.impl = "sdk" THEN x
                   ELSE IF F = {} THEN s1
                   ELSE Collect(future_del(s1, F)) : x \in {s}} : TRUE

\* The cycle collector runs: unreachable cycles go, and with them what only
\* they kept alive.
RECURSIVE Swept(_)
Swept(s) ==
  LET s1 == Settle([s EXCEPT !.retained.limbo = {}])
  IN IF s1.retained.limbo = {} THEN s1 ELSE Swept(s1)

\* Handle._run for a callback that raises, in the examples loop: the exception
\* goes to loop.call_exception_handler with a context that Handle._run's frame
\* holds, and that frame's callers are the run_until_complete calls in
\* progress.
RunRaises(s, exc) == Pinned(Stored(s, exc, TRUE), ByLoop)

\* (sdk loop) The tasks suspended in register() that nothing refers to any
\* more: the awaited future is done, the handle of the wakeup is gone from
\* _ready, user code does not hold the task, and no frame kept alive by an
\* uncollected cycle has it as `future`.
Abandoned(s) ==
  {t \in 1..Len(s.tasks) :
     /\ ~Done(s, s.tasks[t].fut)
     /\ s.tasks[t].waker # 0
     /\ Done(s, s.tasks[t].waker)
     /\ ~s.futs[s.tasks[t].fut].kept
     /\ s.tasks[t].fut \notin s.retained.limbo
     /\ \A i \in 1..Len(s.queue) : Ref(s, s.queue[i]) # s.tasks[t].fut
     /\ \A i \in 1..Len(s.frames) : s.frames[i].top # s.tasks[t].fut}

\* (sdk loop) A task nothing refers to is destroyed, and with it its
\* coroutine: closing a coroutine suspended in register() runs the finally
\* clause, del loop._futures[future].
Reclaimed(s) ==
  IF s.impl # "sdk" THEN s
  ELSE [s EXCEPT
          !.wait = SelectSeq(@, LAMBDA e :
                     \A t \in Abandoned(s) : s.tasks[t].waker # e.fut),
          !.tasks = [t \in 1..Len(@) |->
                       IF t \in Abandoned(s)
                       THEN [@[t] EXCEPT !.waitingOn = 0, !.waker = 0]
                       ELSE @[t]]]

\* A callback scheduled by user code: a Handle from call_soon or a TimerHandle
\* from call_later / call_at.
IsCallback(h) == h.kind \in {"user", "timer"}

\* Handle._run for the callbacks that return to the loop. A user callback
\* "again" schedules another callback; "resolve" calls set_result(1) on the
\* future it was given and keeps the error, if any. A raising callback in
\* the examples loop reaches call_exception_handler.
RunCallback(s, h) ==
  CASE h.kind = "step" -> TaskStep(s, h.task)
    [] h.kind = "wakeup" -> TaskWakeup(s, h.task)
    [] h.kind = "stop" -> stop(s)
    [] IsCallback(h) /\ h.beh = "again" -> call_soon(s, "user", 0, 0, "nop")
    [] IsCallback(h) /\ h.beh = "resolve" -> set_result(s, h.fut, "result", 1)
    [] IsCallback(h) /\ h.beh = "raise" -> RunRaises(s, "callback-error")
    [] IsCallback(h) /\ h.beh = "stop" -> stop(s)
    [] IsCallback(h) /\ h.beh = "close" -> close(s)
    [] IsCallback(h) /\ h.beh = "cancel" -> task_cancel(s, h.task)
    [] OTHER -> s

\* ------------------------------------------------------------ frames
Top == stack[Len(stack)]

\* One run_until_complete call in progress. pc is "callbacks" while the
\* iteration runs its batch and "check" once the poll step is behind it.
\* count is the sdk's ready_count still to go, batch the examples' local
\* list `handles`. pending0, ran and polls record the iteration: the handles
\* pending when it began, the handles it ran, the host polls it made. held
\* is the future the examples' local `handle` refers to, pin what keeps the
\* frame alive beyond the call.
NewIteration(top, q, isSdk) ==
  [top |-> top, pc |-> "callbacks",
   count |-> IF isSdk THEN Len(q) ELSE 0,
   batch |-> IF isSdk THEN <<>> ELSE q,
   pending0 |-> q, ran |-> <<>>, polls |-> 0, held |-> 0, pin |-> NoPin]

\* A plausible slip: run_until_complete calls future.result() and leaves
\* out the `return`, so a call on a resolved future returns None.
FutureResult_none(s, f) ==
  [kind |-> IF s.futs[f].state = "result" THEN "return" ELSE "raise",
   what |-> IF s.futs[f].state = "pending" THEN "InvalidStateError"
            ELSE s.futs[f].state,
   fut |-> f, value |-> 0]

\* future.result(): the value, or the future's exception raised;
\* InvalidStateError for a future that is not done.
FutureResult(s, f) ==
  [kind |-> IF s.futs[f].state = "result" THEN "return" ELSE "raise",
   what |-> IF s.futs[f].state = "pending" THEN "InvalidStateError"
            ELSE s.futs[f].state,
   fut |-> f, value |-> s.futs[f].value]

\* future.result() also marks the future's exception as retrieved.
Retrieved(s, f) == [s EXCEPT !.futs[f].logtb = FALSE]

\* run_forever returns None.
ReturnedNone == [kind |-> "return", what |-> "result", fut |-> 0, value |-> 0]

Raised(what, f) == [kind |-> "raise", what |-> what, fut |-> f, value |-> 0]

\* The call ends: its frame goes, and the caller (user code at top level, a
\* callback for a nested call) gets the result or the exception.
Return(out) ==
  /\ stack' = SubSeq(stack, 1, Len(stack) - 1)
  /\ IF Len(stack) = 1
     THEN outcome' = out /\ UNCHANGED reent
     ELSE reent' = out /\ UNCHANGED outcome

\* What user code passes to run_until_complete: a task or a future it holds,
\* or a new coroutine.
RunArgs ==
  {[fut |-> f, awaits |-> 0, oc |-> "result"] :
     f \in {g \in 1..Len(futs) :
              /\ futs[g].kind \in {"task", "user"}
              /\ futs[g].kept}}
  \cup (IF Len(tasks) < TaskCap
        THEN {[fut |-> 0, awaits |-> n, oc |-> o] :
                n \in 0..MaxAwaits, o \in Outcomes}
        ELSE {})

\* asyncio.ensure_future(x, loop=self): a future is returned as it is, a
\* coroutine is wrapped by loop.create_task.
ensure_future(s, arg) ==
  IF arg.fut # 0 THEN s ELSE create_task(s, arg.awaits, arg.oc)

ArgFuture(s, arg) == IF arg.fut # 0 THEN arg.fut ELSE Len(s.futs) + 1

\* The handle the running iteration takes next, when there is one.
HasNext ==
  /\ stack # <<>>
  /\ Top.pc = "callbacks"
  /\ IF impl = "sdk" THEN Top.count > 0 /\ queue # <<>> ELSE Top.batch # <<>>

NextHandle == IF impl = "sdk" THEN Head(queue) ELSE Head(Top.batch)

\* The batch of the running iteration is finished.
BatchDone == stack # <<>> /\ Top.pc = "callbacks" /\ ~HasNext

\* User callbacks by what they do: "reenter" calls run_until_complete inside
\* try/except, "reenter-raise" calls it bare (loop.call_soon(
\* loop.run_until_complete, x)), "raise" raises, "stop" is loop.stop and
\* "close" is loop.close, which in the sdk raises RuntimeError while the
\* loop runs.
IsReenter(h) ==
  IsCallback(h) /\ h.beh \in {"reenter", "reenter-raise"} /\ ~h.cancelled
Catches(h) == h.beh = "reenter"
IsRaise(h) ==
  /\ IsCallback(h)
  /\ ~h.cancelled
  /\ h.beh = "raise" \/ (h.beh = "close" /\ impl = "sdk")
IsStop(h) == IsCallback(h) /\ h.beh = "stop" /\ ~h.cancelled

\* The callback that made the nested call in progress: the handle the frame
\* below took last.
Caller ==
  LET fr == stack[Len(stack) - 1]
  IN CHOOSE h \in Range(fr.pending0) : h.seq = fr.ran[Len(fr.ran)]

Nested == Len(stack) > 1
CallerCatches == Nested /\ Catches(Caller)

\* A plausible slip: the sdk's count of handles to run is not used up, so the
\* iteration goes on until the queue is empty.
Taken_until_empty(fr, h) ==
  [fr EXCEPT !.batch = IF impl = "sdk" THEN @ ELSE Tail(@),
             !.ran = IF h.cancelled THEN @ ELSE Append(@, h.seq)]

\* The frame after the iteration has taken handle h off its batch.
Taken(fr, h) ==
  [fr EXCEPT !.count = IF impl = "sdk" THEN @ - 1 ELSE @,
             !.batch = IF impl = "sdk" THEN @ ELSE Tail(@),
             !.ran = IF h.cancelled THEN @ ELSE Append(@, h.seq)]

\* The loop state after the iteration has taken the next handle: the sdk
\* pops it from _ready, the examples' batch is a local list.
Popped ==
  IF impl = "sdk" THEN [LoopState EXCEPT !.queue = Tail(@)] ELSE LoopState

ResetPoll(s) == [s EXCEPT !.pollLog = <<>>]

\* ------------------------------------------------------------ user code
\* Between runs, user code holds the loop and may schedule work on it.
UserFutures == {f \in 1..Len(futs) : futs[f].kind = "user" /\ futs[f].kept}

\* loop.create_task(coro) called by user code before a run; kept tells
\* whether user code keeps the task it gets. (Only the examples loop can
\* tell: the sdk loop's inherited call_exception_handler raises, and an
\* exception raised in a finalizer is dropped.)
UserCreateTask(n, oc, kept) ==
  /\ stack = <<>>
  /\ Len(tasks) < TaskCap
  /\ impl = "sdk" => kept
  /\ Commit([create_task(LoopState, n, oc)
               EXCEPT !.futs[Len(futs) + 1].kept = kept])
  /\ UNCHANGED <<impl, scenario, stack, runs, outcome, reent, lastPoll, lastReady>>
  /\ UNCHANGED httpVars

\* loop.call_soon(callback) called by user code before a run.
UserCallSoon(beh, f) ==
  /\ stack = <<>>
  /\ ncalls < CallCap
  /\ beh \in Behaviours
  /\ IF beh = "resolve" THEN f \in UserFutures ELSE f = 0
  /\ Commit([call_soon(LoopState, "user", 0, f, beh) EXCEPT !.ncalls = @ + 1])
  /\ UNCHANGED <<impl, scenario, stack, runs, outcome, reent, lastPoll, lastReady>>
  /\ UNCHANGED httpVars

\* loop.call_soon(t.cancel) called by user code before a run, for a task t it
\* created.
UserCallSoonCancel(t) ==
  /\ stack = <<>>
  /\ scenario = "cancel"
  /\ ncalls < CallCap
  /\ t \in 1..Len(tasks)
  /\ futs[tasks[t].fut].kept
  /\ Commit([call_soon(LoopState, "user", t, 0, "cancel") EXCEPT !.ncalls = @ + 1])
  /\ UNCHANGED <<impl, scenario, stack, runs, outcome, reent, lastPoll, lastReady>>
  /\ UNCHANGED httpVars

\* sdk: loop.call_later(delay, callback) called by user code before a run.
\* (The examples loop's call_later raises NotImplementedError.)
UserCallLater(delay, place, beh) ==
  /\ impl = "sdk"
  /\ stack = <<>>
  /\ scenario = "control"
  /\ ncalls < CallCap
  /\ place \in (IF delay <= 0 THEN {0} ELSE Places(scheduled, delay))
  /\ Commit([call_later(LoopState, delay, place, beh)
               EXCEPT !.ncalls = @ + 1])
  /\ UNCHANGED <<impl, scenario, stack, runs, outcome, reent, lastPoll, lastReady>>
  /\ UNCHANGED httpVars

\* sdk: loop.call_at(loop.time() + when, callback) called by user code.
UserCallAt(when, place, beh) ==
  /\ impl = "sdk"
  /\ stack = <<>>
  /\ scenario = "control"
  /\ ncalls < CallCap
  /\ place \in (IF when <= 0 THEN {0} ELSE Places(scheduled, when))
  /\ Commit([call_at(LoopState, when, place, beh)
               EXCEPT !.ncalls = @ + 1])
  /\ UNCHANGED <<impl, scenario, stack, runs, outcome, reent, lastPoll, lastReady>>
  /\ UNCHANGED httpVars

\* loop.close() called by user code between runs, where it changes something.
\* In the sdk loop the handles it clears may have been the last reference to
\* a task.
UserClose ==
  /\ stack = <<>>
  /\ scenario = "control"
  /\ close(LoopState) # LoopState
  /\ Commit(Reclaimed(close(LoopState)))
  /\ UNCHANGED <<impl, scenario, stack, runs, outcome, reent, lastPoll, lastReady>>
  /\ UNCHANGED httpVars

\* examples: loop.call_exception_handler(context) called from outside a
\* callback, as asyncio's finalizers and user code may: with hasExc the
\* context carries an exception, without it does not ('Task was destroyed
\* but it is pending!'). (The sdk loop inherits a call_exception_handler
\* that raises NotImplementedError.)
UserCallExceptionHandler(hasExc) ==
  /\ impl = "examples"
  /\ stack = <<>>
  /\ scenario = "control"
  /\ LET s1 == Collect(Stored(LoopState,
                              IF hasExc THEN "context-exception" ELSE "none",
                              FALSE))
     IN s1 # LoopState /\ Commit(s1)
  /\ UNCHANGED <<impl, scenario, stack, runs, outcome, reent, lastPoll, lastReady>>
  /\ UNCHANGED httpVars

\* examples: user code drops its reference to a task or future that holds
\* an exception, or whose exception a run_until_complete call raised (the
\* exception's traceback keeps that call's frame). A future nothing else
\* refers to is finalized at once.
UserDrop(f) ==
  /\ impl = "examples"
  /\ stack = <<>>
  /\ f \in 1..Len(futs)
  /\ futs[f].kept
  /\ futs[f].logtb \/ futs[f].tb # {}
  /\ Commit(Collect([LoopState EXCEPT !.futs[f].kept = FALSE]))
  /\ UNCHANGED <<impl, scenario, stack, runs, outcome, reent, lastPoll, lastReady>>
  /\ UNCHANGED httpVars

\* sdk: Python's cycle collector runs between two calls on the loop and frees
\* the frames of a run that a callback's exception ended.
S_collect ==
  /\ impl = "sdk"
  /\ stack = <<>>
  /\ retained.limbo # {}
  /\ Commit(Reclaimed([LoopState EXCEPT !.retained.limbo = {}]))
  /\ UNCHANGED <<impl, scenario, stack, runs, outcome, reent, lastPoll, lastReady>>
  /\ UNCHANGED httpVars

\* examples: Python's cycle collector runs between two calls on the loop and
\* frees the unreachable cycles of exceptions, tracebacks and frames.
E_collect ==
  /\ impl = "examples"
  /\ stack = <<>>
  /\ retained.limbo # {}
  /\ Commit(Collect(Swept(LoopState)))
  /\ UNCHANGED <<impl, scenario, stack, runs, outcome, reent, lastPoll, lastReady>>
  /\ UNCHANGED httpVars

\* loop.stop() called by user code between runs, where it changes something:
\* the sdk sets _stopping (the next run clears it before its first
\* iteration), the examples loop clears self.running.
UserStop ==
  /\ stack = <<>>
  /\ scenario = "control"
  /\ stop(LoopState) # LoopState
  /\ Commit(stop(LoopState))
  /\ UNCHANGED <<impl, scenario, stack, runs, outcome, reent, lastPoll, lastReady>>
  /\ UNCHANGED httpVars

\* handle.cancel() on a handle call_soon returned to user code.
UserCancel(i) ==
  /\ stack = <<>>
  /\ i \in 1..Len(queue)
  /\ queue[i].kind = "user"
  /\ ~queue[i].cancelled
  /\ Commit(Collect([LoopState EXCEPT !.queue[i].cancelled = TRUE]))
  /\ UNCHANGED <<impl, scenario, stack, runs, outcome, reent, lastPoll, lastReady>>
  /\ UNCHANGED httpVars

\* loop.create_future() called by user code.
UserCreateFuture ==
  /\ stack = <<>>
  /\ Cardinality({f \in 1..Len(futs) : futs[f].kind = "user"}) < FutureCap
  /\ Commit([create_future(LoopState, "user")
               EXCEPT !.futs[Len(futs) + 1].kept = TRUE])
  /\ UNCHANGED <<impl, scenario, stack, runs, outcome, reent, lastPoll, lastReady>>
  /\ UNCHANGED httpVars

\* fut.set_result(v) / fut.set_exception(e) by user code on such a future.
UserSetResult(f, st, v) ==
  /\ stack = <<>>
  /\ f \in UserFutures
  /\ Commit(set_result(LoopState, f, st, v))
  /\ UNCHANGED <<impl, scenario, stack, runs, outcome, reent, lastPoll, lastReady>>
  /\ UNCHANGED httpVars

\* ------------------------------------------------------------ sdk PollLoop
\* run_until_complete called while no run is in progress: the running check
\* passes, a coroutine is wrapped, the stop callback is added, the flags are
\* set and the first _run_once begins: due timers are moved to _ready and
\* len(self._ready) is read.
S_run_until_complete(arg) ==
  /\ impl = "sdk"
  /\ stack = <<>>
  /\ runs < MaxRuns
  /\ ~running
  /\ LET s1 == ensure_future(LoopState, arg)
         f == ArgFuture(LoopState, arg)
         s2 == ResetPoll(add_done_callback(s1, f, "stop", 0))
         s3 == MoveDue([s2 EXCEPT !.stopping = FALSE, !.running = TRUE])
     IN /\ Commit(s3)
        /\ stack' = <<NewIteration(f, s3.queue, TRUE)>>
  /\ runs' = runs + 1
  /\ lastPoll' = <<>>
  /\ lastReady' = <<>>
  /\ outcome' = NoOutcome
  /\ reent' = NoOutcome
  /\ UNCHANGED <<impl, scenario>>
  /\ UNCHANGED httpVars

\* run_forever called while no run is in progress: the same loop without a
\* future; it is left only through _stopping. The frame's top is 0.
S_run_forever ==
  /\ impl = "sdk"
  /\ scenario = "control"
  /\ stack = <<>>
  /\ runs < MaxRuns
  /\ ~running
  /\ LET s3 == MoveDue([ResetPoll(LoopState) EXCEPT !.stopping = FALSE,
                                                   !.running = TRUE])
     IN /\ Commit(s3)
        /\ stack' = <<NewIteration(0, s3.queue, TRUE)>>
  /\ runs' = runs + 1
  /\ lastPoll' = <<>>
  /\ lastReady' = <<>>
  /\ outcome' = NoOutcome
  /\ reent' = NoOutcome
  /\ UNCHANGED <<impl, scenario>>
  /\ UNCHANGED httpVars

\* run_until_complete called by a callback of the running loop: the running
\* check raises RuntimeError before anything else is done. Here the callback
\* catches it.
S_reenter ==
  /\ impl = "sdk"
  /\ HasNext
  /\ IsReenter(NextHandle)
  /\ Catches(NextHandle)
  /\ running
  /\ Commit(Popped)
  /\ reent' = Raised("already-running", 0)
  /\ stack' = [stack EXCEPT ![Len(stack)] = Taken(@, NextHandle)]
  /\ UNCHANGED <<impl, scenario, runs, outcome, lastPoll, lastReady>>
  /\ UNCHANGED httpVars

\* _run_once, one turn of its callback loop: pop the first handle and run it
\* unless it is cancelled.
S_run_handle ==
  /\ impl = "sdk"
  /\ HasNext
  /\ ~IsReenter(NextHandle)
  /\ ~IsRaise(NextHandle)
  /\ Commit(IF NextHandle.cancelled THEN Popped
            ELSE RunCallback(Popped, NextHandle))
  /\ stack' = [stack EXCEPT ![Len(stack)] = Taken(@, NextHandle)]
  /\ UNCHANGED <<impl, scenario, runs, outcome, reent, lastPoll, lastReady>>
  /\ UNCHANGED httpVars

\* A callback raises, or lets the RuntimeError of a re-entrant
\* run_until_complete out: Handle._run hands the exception to
\* loop.call_exception_handler, which the sdk PollLoop inherits from
\* AbstractEventLoop and which raises NotImplementedError. That leaves
\* _run_once and run_until_complete (or run_forever), whose finally clears
\* the flags. The context Handle._run built stays in its frame and holds the
\* exception, whose traceback holds the frame: a cycle that keeps the frames
\* of _run_once and run_until_complete, and so the local `future`, until it
\* is collected.
S_callback_raises ==
  /\ impl = "sdk"
  /\ HasNext
  /\ IsRaise(NextHandle) \/ (IsReenter(NextHandle) /\ ~Catches(NextHandle))
  /\ Commit([Popped EXCEPT !.stopping = FALSE, !.running = FALSE,
                           !.retained.limbo = @ \cup ({Top.top} \ {0})])
  /\ Return(Raised("NotImplementedError", Top.top))
  /\ UNCHANGED <<impl, scenario, runs, lastPoll, lastReady>>
  /\ UNCHANGED httpVars

\* All index lists the host poll may return for n pollables: any indices in
\* range, in any order, repeated or not, none at all included.
RECURSIVE SeqsUpTo(_, _)
SeqsUpTo(S, k) ==
  IF k = 0 THEN {<<>>}
  ELSE LET shorter == SeqsUpTo(S, k - 1)
       IN shorter \cup {Append(q, x) : q \in {r \in shorter : Len(r) = k - 1},
                                       x \in S}

ReadyLists(n) == SeqsUpTo(1..n, MaxReady)

PollableList(ents) == [i \in 1..Len(ents) |-> ents[i].pollable]

\* A plausible slip: only the first waiting entry is handed to poll.
S_poll_entries_first(s) ==
  LET all == SelectSeq(s.wait, LAMBDA e: ~Done(s, e.fut))
  IN IF all = <<>> THEN <<>> ELSE <<Head(all)>>

\* _run_once: the entries of _futures whose future is not done, in the
\* dictionary's order; their pollables are the list passed to poll.
S_poll_entries(s) == SelectSeq(s.wait, LAMBDA e: ~Done(s, e.fut))

\* A plausible slip: the index is taken one off.
S_ready_future_shifted(ents, index) == ents[(index % Len(ents)) + 1]

\* _run_once: future = pollable_futures[index], the entry at the position
\* the host named.
S_ready_future(ents, index) == ents[index]

\* _run_once: for index in ready_list: the future at that index gets
\* set_result(None) unless it is done already.
RECURSIVE S_resolve(_, _, _)
S_resolve(s, ents, ready) ==
  IF ready = <<>> THEN s
  ELSE LET e == S_ready_future(ents, Head(ready))
           s1 == IF Done(s, e.fut) THEN s
                 ELSE [set_result(s, e.fut, "result", 0)
                         EXCEPT !.err = s.err,
                                !.pollLog = Append(@, [ev |-> "resolve",
                                                       fut |-> e.fut,
                                                       pollable |-> e.pollable])]
       IN S_resolve(s1, ents, Tail(ready))

\* _run_once after the callbacks: there are futures to wait for, so poll is
\* called once with all their pollables and the ready ones are resolved.
\* _run_once ends by advancing _timer.
S_poll(ready) ==
  /\ impl = "sdk"
  /\ BatchDone
  /\ LET ents == S_poll_entries(LoopState)
     IN /\ ents # <<>>
        /\ ready \in ReadyLists(Len(ents))
        /\ Commit(Tick(S_resolve(LoopState, ents, ready)))
        /\ lastPoll' = PollableList(ents)
        /\ lastReady' = ready
  /\ stack' = [stack EXCEPT ![Len(stack)].pc = "check",
                            ![Len(stack)].polls = @ + 1]
  /\ UNCHANGED <<impl, scenario, runs, outcome, reent>>
  /\ UNCHANGED httpVars

\* _run_once after the callbacks: no future to wait for, no poll.
\* _run_once ends by advancing _timer.
S_no_poll ==
  /\ impl = "sdk"
  /\ BatchDone
  /\ S_poll_entries(LoopState) = <<>>
  /\ stack' = [stack EXCEPT ![Len(stack)].pc = "check"]
  /\ Commit(Tick(LoopState))
  /\ UNCHANGED <<impl, scenario, runs, outcome, reent, lastPoll, lastReady>>
  /\ UNCHANGED httpVars

\* The top-level future of the innermost call is done (run_forever has none).
TopDone == Top.top # 0 /\ Done(LoopState, Top.top)

\* run_until_complete after _run_once returned: leave when the future is
\* done; otherwise go round again unless _stopping is set, in which case the
\* loop is left with the future pending and RuntimeError is raised.
\* run_forever goes round until _stopping is set and returns None. The
\* finally clause clears both flags however the call ends.
S_iter_end ==
  /\ impl = "sdk"
  /\ stack # <<>>
  /\ Top.pc = "check"
  /\ \/ /\ TopDone
        /\ Return(FutureResult(LoopState, Top.top))
        /\ Commit(ResetPoll([Retrieved(LoopState, Top.top)
                               EXCEPT !.stopping = FALSE, !.running = FALSE]))
        /\ lastPoll' = <<>>
        /\ lastReady' = <<>>
     \/ /\ ~TopDone
        /\ stopping
        /\ Return(IF Top.top = 0 THEN ReturnedNone
                  ELSE Raised("stopped-before-complete", Top.top))
        /\ Commit(ResetPoll([LoopState EXCEPT !.stopping = FALSE,
                                              !.running = FALSE]))
        /\ lastPoll' = <<>>
        /\ lastReady' = <<>>
     \/ /\ ~TopDone
        /\ ~stopping
        /\ LET s1 == MoveDue(ResetPoll(LoopState))
           IN /\ Commit(s1)
              /\ stack' = [stack EXCEPT ![Len(stack)] =
                                          NewIteration(Top.top, s1.queue, TRUE)]
        /\ lastPoll' = <<>>
        /\ lastReady' = <<>>
        /\ UNCHANGED <<outcome, reent>>
  /\ UNCHANGED <<impl, scenario, runs>>
  /\ UNCHANGED httpVars

\* ------------------------------------------------------------ examples PollLoop
\* How a call leaves its frame: by `return` ("return"), by
\* `raise self.exception` ("held": the object the loop holds), by
\* future.result() raising the future's own exception ("own"), or with an
\* exception made on the spot ("fresh": InvalidStateError, CancelledError).
HowResult(out) ==
  IF out.kind = "return" THEN "return"
  ELSE IF out.what = "exception" THEN "own" ELSE "fresh"

\* The innermost call ends by `out`. Its frame is released unless the
\* exception that leaves it keeps it: raised again, self.exception gets the
\* frame into its traceback; the future's own exception gets a new traceback
\* with the frame in it (result() raises it with the traceback it was set
\* with). A calling callback that catches the exception drops it; from one
\* that does not, the exception goes through Handle._run to
\* call_exception_handler. A frame kept alive keeps its callers' frames
\* (Pinned), and a pinned frame stays with what pins it.
E_left(s, out, how, caught) ==
  LET fr == s.frames[Len(s.frames)]
      refs == FrameRefs(s, fr)
      nested == Len(s.frames) > 1
      f == fr.top
      s0 == [s EXCEPT !.frames = SubSeq(@, 1, Len(@) - 1)]
      InLoopTb(x) == [x EXCEPT !.retained.tb = @ \cup refs]
      InOwnTb(x) ==
        [x EXCEPT !.futs[f].tb = refs,
                  !.frames = [i \in 1..Len(@) |->
                                [@[i] EXCEPT !.pin.futs = @ \ {f}]]]
      by == CASE how = "held" -> ByLoop
              [] how = "own" -> ByFuture(f)
              [] OTHER -> NoPin
      s1 == CASE how = "held" -> InLoopTb(s0)
              [] how = "own" -> InOwnTb(s0)
              [] OTHER -> s0
      s2 == IF ~nested \/ how = "return" THEN s1
            ELSE IF caught THEN Pinned(s1, by)
            ELSE IF how = "held"
            THEN Pinned([s1 EXCEPT !.retained.shared = TRUE], ByLoop)
            ELSE Pinned(InLoopTb(Stored(Pinned(s1, by), out.what, TRUE)), ByLoop)
      s3 == [s2 EXCEPT
               !.retained.tb = IF fr.pin.loop THEN @ \cup refs ELSE @,
               !.retained.limbo = IF fr.pin.limbo THEN @ \cup refs ELSE @,
               !.futs = [g \in 1..Len(@) |->
                           IF g \in fr.pin.futs
                           THEN [@[g] EXCEPT !.tb = @ \cup refs] ELSE @[g]]]
  IN Collect(s3)

\* The state s after a call has ended by `out` becomes the state, and the
\* caller (user code at top level, a callback for a nested call) gets the
\* result or the exception.
E_return(s, out) ==
  \E c \in {s} :
    /\ Commit(c)
    /\ stack' = c.frames
    /\ IF c.frames = <<>>
       THEN outcome' = out /\ UNCHANGED reent
       ELSE reent' = out /\ UNCHANGED outcome

\* run_until_complete, up to its first iteration: ensure_future, running set,
\* then the loop condition. A future that is done already is returned at
\* once (or its exception raised); otherwise the iteration takes the pending
\* handles as its batch and leaves self.handles empty. s.frames is the stack
\* the call is made on; caught tells whether a calling callback catches.
E_enter(s, arg, caught) ==
  LET s1 == [ResetPoll(ensure_future(s, arg)) EXCEPT !.running = TRUE]
      f == ArgFuture(s, arg)
      out == FutureResult(s1, f)
  IN IF Done(s1, f)
     THEN E_return(E_left([Retrieved(s1, f) EXCEPT
                              !.frames = Append(@, NewIteration(f, <<>>, FALSE))],
                          out, HowResult(out), caught),
                   out)
     ELSE /\ Commit([s1 EXCEPT !.queue = <<>>])
          /\ stack' = Append(s1.frames, NewIteration(f, s1.queue, FALSE))
          /\ IF s.frames = <<>>
             THEN outcome' = NoOutcome /\ reent' = NoOutcome
             ELSE UNCHANGED <<outcome, reent>>

\* run_until_complete called by user code that is not inside the loop.
E_run_until_complete(arg) ==
  /\ impl = "examples"
  /\ stack = <<>>
  /\ runs < MaxRuns
  /\ E_enter(LoopState, arg, FALSE)
  /\ runs' = runs + 1
  /\ lastPoll' = <<>>
  /\ lastReady' = <<>>
  /\ UNCHANGED <<impl, scenario>>
  /\ UNCHANGED httpVars

\* `for handle in handles` binds the next handle: the frame has taken it, and
\* what the handle bound before referred to may go.
E_bound(h) ==
  Collect([LoopState EXCEPT
             !.frames[Len(stack)] = [Taken(@, h) EXCEPT !.held = Ref(LoopState, h)]])

\* run_until_complete called by a callback of the running loop: the method
\* has no check of self.running, so the call starts a loop of its own on the
\* same handles and wakers.
E_reenter(arg) ==
  /\ impl = "examples"
  /\ HasNext
  /\ IsReenter(NextHandle)
  /\ Len(stack) < MaxDepth
  /\ \E b \in {E_bound(NextHandle)} : E_enter(b, arg, Catches(NextHandle))
  /\ lastPoll' = <<>>
  /\ lastReady' = <<>>
  /\ UNCHANGED <<impl, scenario, runs>>
  /\ UNCHANGED httpVars

\* One turn of `for handle in handles`: run the handle unless cancelled. A
\* raising callback goes through Handle._run to call_exception_handler.
E_run_handle ==
  /\ impl = "examples"
  /\ HasNext
  /\ ~IsReenter(NextHandle)
  /\ \E b \in {E_bound(NextHandle)} :
       \E s1 \in {IF NextHandle.cancelled THEN b
                   ELSE Collect(RunCallback(b, NextHandle))} :
         Commit(s1) /\ stack' = s1.frames
  /\ UNCHANGED <<impl, scenario, runs, outcome, reent, lastPoll, lastReady>>
  /\ UNCHANGED httpVars

\* A ready entry: pollable.__exit__(...), then waker.set_result(None).
E_release(s, e) ==
  LET s1 == [s EXCEPT !.pollables[e.pollable].closed = @ + 1,
                      !.pollLog = Append(@, [ev |-> "close", fut |-> e.fut,
                                             pollable |-> e.pollable])]
  IN [set_result(s1, e.fut, "result", 0)
        EXCEPT !.err = s.err,
               !.pollLog = Append(@, [ev |-> "resolve", fut |-> e.fut,
                                      pollable |-> e.pollable])]

\* ready = [False] * len(pollables); ready[index] = True for each index.
E_ready_flags(n, ready) == [i \in 1..n |-> i \in Range(ready)]

\* A ready entry whose waker is done already (a cancelled one):
\* pollable.__exit__(...), then waker.set_result(None) raises
\* InvalidStateError.
E_release_done(s, e) ==
  [s EXCEPT !.pollables[e.pollable].closed = @ + 1,
            !.pollLog = Append(@, [ev |-> "close", fut |-> e.fut,
                                   pollable |-> e.pollable])]

\* The sweep raises: some ready entry has a waker that is done.
E_sweep_raises(s, ents, flags) ==
  \E i \in 1..Len(ents) : flags[i] /\ Done(s, ents[i].fut)

\* The sweep over zip(ready, pollables, wakers): ready entries are released,
\* the others are collected in new_wakers (s.wait, empty at the start). The
\* sweep ends at the first entry whose set_result raises.
RECURSIVE E_sweep(_, _, _, _)
E_sweep(s, ents, flags, i) ==
  IF i > Len(ents) THEN s
  ELSE IF flags[i] /\ Done(s, ents[i].fut) THEN E_release_done(s, ents[i])
  ELSE E_sweep(IF flags[i] THEN E_release(s, ents[i])
               ELSE [s EXCEPT !.wait = Append(@, ents[i])],
               ents, flags, i + 1)

\* After the callbacks, self.wakers is not empty: poll is called once with
\* every pollable in it, and self.wakers becomes new_wakers. When the sweep
\* raises, the exception leaves run_until_complete and self.wakers stays the
\* list that was polled.
E_poll(ready) ==
  /\ impl = "examples"
  /\ BatchDone
  /\ wait # <<>>
  /\ ready \in ReadyLists(Len(wait))
  /\ LET flags == E_ready_flags(Len(wait), ready)
         swept == E_sweep([LoopState EXCEPT !.wait = <<>>], wait, flags, 1)
         out == Raised("InvalidStateError", Top.top)
     IN IF E_sweep_raises(LoopState, wait, flags)
        THEN E_return(E_left([swept EXCEPT !.wait = wait], out, "fresh",
                             CallerCatches),
                      out)
        ELSE /\ Commit(swept)
             /\ stack' = [stack EXCEPT ![Len(stack)].pc = "check",
                                       ![Len(stack)].polls = @ + 1]
             /\ UNCHANGED <<outcome, reent>>
  /\ lastPoll' = PollableList(wait)
  /\ lastReady' = ready
  /\ UNCHANGED <<impl, scenario, runs>>
  /\ UNCHANGED httpVars

\* After the callbacks, self.wakers is empty: no poll.
E_no_poll ==
  /\ impl = "examples"
  /\ BatchDone
  /\ wait = <<>>
  /\ stack' = [stack EXCEPT ![Len(stack)].pc = "check"]
  /\ UNCHANGED <<impl, scenario, futs, tasks, pollables, queue, wait, running, stopping,
                 scheduled, closed, exception, retained, nseq, runs, ncalls, outcome,
                 reent, err, lastPoll, lastReady, pollLog>>
  /\ UNCHANGED httpVars

\* The end of the loop body: a kept exception is raised; otherwise the loop
\* condition decides between another iteration and return future.result(),
\* which raises InvalidStateError when the loop was stopped with the future
\* pending. Another iteration begins with `handles = self.handles`, which
\* lets go of the list the iteration before took (the local `handle` still
\* refers to the last handle of that list).
E_iter_end ==
  /\ impl = "examples"
  /\ stack # <<>>
  /\ Top.pc = "check"
  /\ \/ /\ exception # "none"
        /\ E_return(E_left(ResetPoll(LoopState), Raised(exception, Top.top),
                           "held", CallerCatches),
                    Raised(exception, Top.top))
     \/ /\ exception = "none"
        /\ running /\ ~Done(LoopState, Top.top)
        /\ \E s1 \in {Collect([ResetPoll(LoopState) EXCEPT
                                  !.queue = <<>>,
                                  !.frames[Len(stack)] =
                                     [NewIteration(Top.top, queue, FALSE)
                                        EXCEPT !.held = Top.held, !.pin = Top.pin]])} :
             Commit(s1) /\ stack' = s1.frames
        /\ UNCHANGED <<outcome, reent>>
     \/ /\ exception = "none"
        /\ ~(running /\ ~Done(LoopState, Top.top))
        /\ E_return(E_left(ResetPoll(Retrieved(LoopState, Top.top)),
                           FutureResult(LoopState, Top.top),
                           HowResult(FutureResult(LoopState, Top.top)),
                           CallerCatches),
                    FutureResult(LoopState, Top.top))
  /\ lastPoll' = <<>>
  /\ lastReady' = <<>>
  /\ UNCHANGED <<impl, scenario, runs>>
  /\ UNCHANGED httpVars

\* ------------------------------------------------------------ HTTP exchange
\* The client code of one exchange:
\*   "sdk"    sdk/python/wasi-http-async: core.fetch, FetchResponse, Stream
\*   "async"  examples/weather/python/wasi_http_async: the same three
\*   "send"   examples/weather/python/poll_loop.py: send and Stream
Clients == {"sdk", "async", "send"}

\* Header names a caller may use, and their lower-case form (HTTP header
\* names compare without regard to case).
HeaderNames == {"content-type", "Content-Type", "accept"}

Lower(name) == IF name = "Content-Type" THEN "content-type" ELSE name

\* The headers dictionaries a caller passes (None included, as <<>>).
CallerHeaders ==
  {<<>>,
   <<[name |-> "accept", value |-> "text/plain"]>>,
   <<[name |-> "content-type", value |-> "text/plain"]>>,
   <<[name |-> "Content-Type", value |-> "text/plain"]>>}

\* What fetch() is called with: headers, and json=... or body=... or neither.
Requests ==
  {[headers |-> h, payload |-> b] :
     h \in CallerHeaders, b \in {"none", "body", "json"}}

NoRequest == [headers |-> <<>>, payload |-> "gone"]

\* fetch(), "Add headers" and "Handle JSON body": every caller header is
\* appended to the Fields, then, with json given, content-type is appended.
request_headers(req) ==
  req.headers \o
  (IF req.payload = "json"
   THEN <<[name |-> "content-type", value |-> "application/json"]>>
   ELSE <<>>)

\* The transport errors (outer level: the unit error of the host result) and
\* the protocol errors (inner level: wasi:http error codes).
OuterErrors == {"unit"}
InnerErrors == {"connection-refused", "connection-timeout"}
Statuses == {200, 404}

\* The object future.get() returns once the exchange is settled. style is how
\* the object presents itself: "variant" is componentize-py's Ok/Err
\* classes (a .value, no is_ok method), "methods" an object with is_ok() and
\* .value, which is what the sdk's fetch asks for with hasattr; coded says
\* that the error value has an error_code attribute (holding the error).
HostResults(c) ==
  LET styles == IF c = "sdk" THEN {"methods", "variant"} ELSE {"variant"}
  IN {[style |-> s, outer |-> "err", inner |-> "none", error |-> e,
       coded |-> FALSE, status |-> 0] : s \in styles, e \in OuterErrors}
     \cup
     {[style |-> s, outer |-> "ok", inner |-> "err", error |-> e,
       coded |-> (s = "methods"), status |-> 0] :
        s \in styles, e \in InnerErrors}
     \cup
     {[style |-> s, outer |-> "ok", inner |-> "ok", error |-> "none",
       coded |-> FALSE, status |-> st] : s \in styles, st \in Statuses}

NoResult == [style |-> "none", outer |-> "none", inner |-> "none",
             error |-> "none", coded |-> FALSE, status |-> 0]

\* How a call ended: it returned a value or raised an exception.
Returned(v) == [kind |-> "return", what |-> "value", detail |-> v]
Failure(what, detail) == [kind |-> "raise", what |-> what, detail |-> detail]
NotEnded == [kind |-> "none", what |-> "none", detail |-> "none"]

\* str() of the host's result objects, as the messages show them: an Err is
\* an exception whose text is that of its value, an Ok prints as Ok(...).
OkOf(v) == IF v = "response" THEN "Ok(response)" ELSE "Ok"

\* A plausible slip: a protocol-level error is taken for a response.
sdk_unwrap_inner_ignored(res) ==
  IF res.style = "methods" /\ res.outer = "ok"
  THEN Returned("response")
  ELSE Failure("Request failed",
               IF res.outer = "err" \/ res.inner = "err" THEN res.error
               ELSE OkOf("response"))

\* sdk fetch(), "Handle response": the two levels are tested with
\* hasattr(x, 'is_ok') and x.is_ok(); an inner error raises "HTTP request
\* failed" with the error's error_code attribute or 'Unknown'; anything that
\* does not pass the outer test raises "Request failed" with
\* str(getattr(response, 'value', response)).
sdk_unwrap(res) ==
  IF res.style = "methods" /\ res.outer = "ok"
  THEN IF res.inner = "ok" THEN Returned("response")
       ELSE Failure("HTTP request failed",
                    IF res.coded THEN res.error ELSE "Unknown")
  ELSE Failure("Request failed",
               IF res.outer = "err" \/ res.inner = "err" THEN res.error
               ELSE OkOf("response"))

\* examples wasi_http_async fetch(): isinstance tests against Ok; an inner
\* error raises "HTTP request failed: {response.value}", an outer error
\* "Request failed: {response}".
async_unwrap(res) ==
  IF res.outer = "ok"
  THEN IF res.inner = "ok" THEN Returned("response")
       ELSE Failure("HTTP request failed", res.error)
  ELSE Failure("Request failed", res.error)

\* examples send(): the inner Err or the outer Err is raised as it is.
send_unwrap(res) ==
  IF res.outer = "ok"
  THEN IF res.inner = "ok" THEN Returned("response")
       ELSE Failure("Err", res.error)
  ELSE Failure("Err", res.error)

unwrap(c, res) ==
  CASE c = "sdk" -> sdk_unwrap(res)
    [] c = "async" -> async_unwrap(res)
    [] OTHER -> send_unwrap(res)

\* What the host has been asked during the exchange. The response future:
\* get() calls, their 'not yet' answers, subscribe() calls, __exit__ calls and
\* the settled result. The outgoing request: body writes, OutgoingBody.finish
\* calls, handle() calls. The incoming response: consume() and stream()
\* calls. The body stream: read() calls, subscribe() calls, __exit__ calls,
\* IncomingBody.finish calls, the chunks delivered, the zero-length answers
\* given (each with the number of chunks delivered before it), and the error
\* that ended the stream ("open" while it has not ended).
HostIdle ==
  [gets |-> 0, notyet |-> 0, subs |-> 0, exits |-> 0, result |-> NoResult,
   written |-> 0, finished |-> 0, handled |-> 0,
   consume |-> 0, streams |-> 0,
   reads |-> 0, ssubs |-> 0, sexits |-> 0, bfinished |-> 0,
   delivered |-> <<>>, empties |-> <<>>, ended |-> "open"]

\* The loop under an exchange. Each client runs on the PollLoop of its own
\* package: the sdk's, or the examples' (wasi_http_async/poll_loop.py and
\* poll_loop.py hold the same loop).
ClientImpl(c) == IF c = "sdk" THEN "sdk" ELSE "examples"

\* The loop once run_until_complete(coroutine) has wrapped the coroutine in
\* a task, begun its first iteration and taken the task's first step: the
\* coroutine is about to run fetch()/send().
HttpEntered(i) ==
  LET s0 == [futs |-> <<>>, tasks |-> <<>>, pollables |-> <<>>,
             queue |-> <<>>, wait |-> <<>>, running |-> FALSE,
             stopping |-> FALSE, scheduled |-> <<>>, closed |-> FALSE,
             exception |-> "none", retained |-> NoRetained, frames |-> <<>>,
             nseq |-> 0, ncalls |-> 0, err |-> "none",
             pollLog |-> <<>>, impl |-> i]
      s1 == create_task(s0, 0, "result")
      s2 == IF i = "sdk" THEN add_done_callback(s1, 1, "stop", 0) ELSE s1
  IN [s2 EXCEPT !.running = TRUE, !.queue = <<>>]

\* The frame of that run: the step handle is the one handle of the first
\* iteration and has been taken.
HttpFrame ==
  [top |-> 1, pc |-> "callbacks", count |-> 0, batch |-> <<>>,
   pending0 |-> <<Handle("step", 1, 0, "nop", 1)>>, ran |-> <<1>>,
   polls |-> 0, held |-> 1, pin |-> NoPin]

\* await register(loop, pollable) in the exchange's coroutine (task 1): the
\* waker future, the wait entry and the task's wakeup callback. What the
\* coroutine does next is the exchange's, not a count of awaits.
await_register(s) == [register(s, 1) EXCEPT !.tasks[1].awaits = 0]

\* The handle the iteration takes next is the wakeup of task 1.
WakeupNext == HasNext /\ NextHandle.kind = "wakeup" /\ NextHandle.task = 1

\* fetch() up to the wait for the response: the headers, the body when there
\* is one (in the sdk, OutgoingBody is not a name of the module: NameError
\* once the body is written), and outgoing_handler.handle. send() is given a
\* request that is built already.
H_fetch_start ==
  /\ pc = "start"
  /\ sent' = IF client = "send" THEN request.headers
             ELSE request_headers(request)
  /\ IF client # "send" /\ request.payload # "none"
     THEN IF client = "sdk"
          THEN /\ host' = [host EXCEPT !.written = @ + 1]
               /\ fetched' = Failure("NameError", "OutgoingBody")
               /\ pc' = "failed"
          ELSE /\ host' = [host EXCEPT !.written = @ + 1, !.finished = @ + 1,
                                       !.handled = @ + 1]
               /\ pc' = "get"
               /\ UNCHANGED fetched
     ELSE /\ host' = [host EXCEPT !.handled = @ + 1]
          /\ pc' = "get"
          /\ UNCHANGED fetched
  /\ UNCHANGED <<client, request, response, reader, call, results>>
  /\ UNCHANGED overlap
  /\ UNCHANGED loopVars

\* A plausible slip: 'not yet' is answered by asking again at once.
H_get_not_yet_spin ==
  /\ pc = "get"
  /\ host.notyet < MaxNotYet
  /\ host' = [host EXCEPT !.gets = @ + 1, !.notyet = @ + 1]
  /\ UNCHANGED <<client, request, sent, pc, fetched, response, reader, call,
                 results>>
  /\ UNCHANGED overlap
  /\ UNCHANGED loopVars

\* future.get() returns None: await register(loop, future.subscribe()).
H_get_not_yet ==
  /\ pc = "get"
  /\ host.notyet < MaxNotYet
  /\ host' = [host EXCEPT !.gets = @ + 1, !.notyet = @ + 1, !.subs = @ + 1]
  /\ pc' = "wait-get"
  /\ Commit(await_register(LoopState))
  /\ UNCHANGED <<client, request, sent, fetched, response, reader, call, results>>
  /\ UNCHANGED overlap
  /\ UNCHANGED <<impl, scenario, stack, runs, outcome, reent, lastPoll, lastReady>>

\* The loop runs the task's wakeup: register() returns (the sdk's finally
\* takes the entry out of _futures) and the while loop of fetch()/send()
\* goes round.
H_get_resume ==
  /\ pc = "wait-get"
  /\ WakeupNext
  /\ pc' = "get"
  /\ Commit(register_resume(Popped, 1))
  /\ stack' = [stack EXCEPT ![Len(stack)] = Taken(@, NextHandle)]
  /\ UNCHANGED <<client, request, sent, host, fetched, response, reader, call,
                 results>>
  /\ UNCHANGED overlap
  /\ UNCHANGED <<impl, scenario, runs, outcome, reent, lastPoll, lastReady>>

\* future.get() returns the settled result. fetch() closes the future and
\* unwraps the two levels; with a response in hand the sdk's fetch() calls
\* consume().stream(), the examples' fetch() calls consume(), and send()
\* returns the incoming response as it is. The request and its headers are
\* locals of fetch(): they are gone once it has returned.
H_get_result(res) ==
  /\ pc = "get"
  /\ res \in HostResults(client)
  /\ LET out == unwrap(client, res)
         got == out.kind = "return"
     IN /\ fetched' = out
        /\ pc' = IF got THEN "ready" ELSE "failed"
        /\ host' = [host EXCEPT
                      !.gets = @ + 1,
                      !.result = res,
                      !.exits = IF client = "send" THEN @ ELSE @ + 1,
                      !.consume = IF got /\ client # "send" THEN @ + 1 ELSE @,
                      !.streams = IF got /\ client = "sdk" THEN @ + 1 ELSE @]
        /\ request' = IF got THEN NoRequest ELSE request
        /\ sent' = IF got THEN <<>> ELSE sent
  /\ UNCHANGED <<client, response, reader, call, results>>
  /\ UNCHANGED overlap
  /\ UNCHANGED loopVars

\* ------------------------------------------------------------ body stream
\* Bytes are sequences of byte values; the chunks a host stream delivers.
\* None is kept apart from every bytes value, b"" included.
None == <<-1>>
Chunks == {<<49>>, <<50, 120>>}

\* bytes.decode('utf-8') on these bytes: the characters "1", "2" and "x".
Chr(b) == CASE b = 49 -> "1" [] b = 50 -> "2" [] OTHER -> "x"
decode(bs) == [i \in 1..Len(bs) |-> Chr(bs[i])]

DigitValue(ch) == IF ch = "1" THEN 1 ELSE 2

RECURSIVE Decimal(_)
Decimal(txt) ==
  IF txt = <<>> THEN 0
  ELSE 10 * Decimal(SubSeq(txt, 1, Len(txt) - 1)) + DigitValue(txt[Len(txt)])

\* A plausible slip: a text that is no JSON document is let through.
loads_lenient(txt) == Returned(Decimal(txt))

\* json.loads on such a text: a run of digits is a number, anything else
\* (the empty text included) is a JSONDecodeError.
loads(txt) ==
  IF txt # <<>> /\ \A i \in 1..Len(txt) : txt[i] \in {"1", "2"}
  THEN Returned(Decimal(txt))
  ELSE Failure("JSONDecodeError", txt)

\* b"".join(chunks)
RECURSIVE Join(_)
Join(chunks) == IF chunks = <<>> THEN <<>> ELSE Head(chunks) \o Join(Tail(chunks))

\* What a host stream read can raise. "closed" is Err(StreamError_Closed),
\* the end of the stream. The others are failures: an Err with
\* last-operation-failed, or an exception that is not an Err; the
\* "-closed-word" ones have the word 'closed' in their text.
StreamErrors == {"closed", "failed", "failed-closed-word", "exc", "exc-closed-word"}
IsErr(e) == e \in {"closed", "failed", "failed-closed-word"}
IsClosedSignal(e) == e = "closed"
\* "closed" in str(e).lower(): str(Err(StreamError_Closed())) has it too.
MentionsClosed(e) == e \in {"closed", "failed-closed-word", "exc-closed-word"}

Answer(kind, data, error) == [kind |-> kind, data |-> data, error |-> error]

\* The answers the host stream may give to the next read: a chunk, a
\* zero-length read, the closed signal or a failure while the stream is open;
\* the closed signal ever after.
ReadAnswers ==
  IF host.ended # "open" THEN {Answer("error", <<>>, "closed")}
  ELSE {Answer("data", c, "none") :
          c \in IF Len(host.delivered) < MaxChunks THEN Chunks ELSE {}}
       \cup (IF Len(host.empties) < MaxEmpty THEN {Answer("empty", <<>>, "none")}
             ELSE {})
       \cup {Answer("error", <<>>, e) : e \in StreamErrors}

\* What one host read makes Stream.read()/next() do: return a value, raise
\* the error, or await the stream's pollable and read again. released says
\* that the wrapper let go of the stream and the body (examples).
ReadStep(act, value, released) ==
  [act |-> act, value |-> value, released |-> released]

\* sdk Stream.read: data is returned; no data means subscribe and await; an
\* exception whose text has 'closed' in it gives b"", any other is re-raised.
sdk_read(ans) ==
  CASE ans.kind = "data" -> ReadStep("return", ans.data, FALSE)
    [] ans.kind = "empty" -> ReadStep("await", <<>>, FALSE)
    [] OTHER -> IF MentionsClosed(ans.error)
                THEN ReadStep("return", <<>>, FALSE)
                ELSE ReadStep("raise", ans.error, FALSE)

\* examples wasi_http_async Stream.next: an Err with StreamError_Closed ends
\* the stream (stream and body are released, None is returned), any other
\* Err is raised; an exception that is not an Err ends the stream when its
\* text has 'closed' in it and is re-raised otherwise.
async_next(ans) ==
  CASE ans.kind = "data" -> ReadStep("return", ans.data, FALSE)
    [] ans.kind = "empty" -> ReadStep("await", <<>>, FALSE)
    [] OTHER -> IF IsErr(ans.error)
                THEN IF IsClosedSignal(ans.error)
                     THEN ReadStep("return", None, TRUE)
                     ELSE ReadStep("raise", ans.error, FALSE)
                ELSE IF MentionsClosed(ans.error)
                     THEN ReadStep("return", None, TRUE)
                     ELSE ReadStep("raise", ans.error, FALSE)

\* examples poll_loop.py Stream.next: only Err is caught; StreamError_Closed
\* releases stream and body and the loop then returns None; any other Err is
\* raised, and an exception that is not an Err passes through.
send_next(ans) ==
  CASE ans.kind = "data" -> ReadStep("return", ans.data, FALSE)
    [] ans.kind = "empty" -> ReadStep("await", <<>>, FALSE)
    [] OTHER -> IF IsErr(ans.error) /\ IsClosedSignal(ans.error)
                THEN ReadStep("return", None, TRUE)
                ELSE ReadStep("raise", ans.error, FALSE)

stream_read(c, ans) ==
  CASE c = "sdk" -> sdk_read(ans)
    [] c = "async" -> async_next(ans)
    [] OTHER -> send_next(ans)

\* The end-of-stream value of a wrapper: b"" (sdk), None (examples).
Eof(c) == IF c = "sdk" THEN <<>> ELSE None

\* ------------------------------------------------------------ FetchResponse
\* FetchResponse after construction, and the value of the variable while
\* there is no response object.
NoResponse == [consumed |-> FALSE, cached |-> None, drains |-> 0]

\* FetchResponse.ok: 200 <= self.status < 300.
ok(status) == 200 <= status /\ status < 300

\* The stream wrapper in use: made by _get_body ("response") or by the
\* caller ("direct"). open is the wrapper's own stream reference (the
\* examples set it to None at the end); sawClosed records that a read of
\* this wrapper was answered with the closed signal.
NoReader == [mode |-> "none", open |-> FALSE, sawClosed |-> FALSE]
NewReader(mode) == [mode |-> mode, open |-> TRUE, sawClosed |-> FALSE]

\* The body call in progress and the chunks read_all has gathered.
NoCall == [kind |-> "none", chunks |-> <<>>]

CallKinds(c) ==
  IF c = "send" THEN {"read"} ELSE {"text", "bytes", "json", "read"}

Result(kind, out) == [kind |-> kind, out |-> out]

\* text(), bytes() and json() on the bytes _get_body returned.
body_result(kind, body) ==
  CASE kind = "bytes" -> Returned(body)
    [] kind = "text" -> Returned(decode(body))
    [] OTHER -> loads(decode(body))

\* A plausible slip: the cached path hands back nothing.
cached_body_dropped(resp) == <<>>

\* _get_body with _body_consumed set: self._cached_body or b"".
cached_body(resp) ==
  IF resp.cached = None \/ resp.cached = <<>> THEN <<>> ELSE resp.cached

\* A plausible slip: the consumed flag is never looked at.
already_consumed_ignored(resp) == FALSE

already_consumed(resp) == resp.consumed

\* A call of text()/bytes()/json() on the response, or of read()/next() on
\* a stream wrapper of the caller. A consumed response answers from the
\* cache; otherwise _get_body sets the flag, wraps the body (the examples'
\* Stream.__init__ calls body.stream()) and starts read_all. The caller's
\* wrapper is made on first use: Stream(response.consume()) after send(),
\* Stream(body) in the examples, Stream(input_stream) in the sdk. A wrapper
\* that dropped its stream returns None without a host call.
H_call_start(kind) ==
  /\ pc = "ready"
  /\ Len(results) < MaxBodyCalls
  /\ kind \in CallKinds(client)
  /\ IF kind = "read"
     THEN /\ reader.mode \in {"none", "direct"}
          /\ ~response.consumed
          /\ LET fresh == reader.mode = "none"
                 rd == IF fresh THEN NewReader("direct") ELSE reader
             IN /\ reader' = rd
                /\ host' = [host EXCEPT
                     !.consume = IF fresh /\ client = "send" THEN @ + 1 ELSE @,
                     !.streams = IF fresh /\ client # "sdk" THEN @ + 1 ELSE @]
                /\ IF rd.open
                   THEN /\ call' = [kind |-> kind, chunks |-> <<>>]
                        /\ pc' = "read"
                        /\ UNCHANGED results
                   ELSE /\ results' = Append(results,
                                        Result(kind, Returned(Eof(client))))
                        /\ UNCHANGED <<call, pc>>
          /\ UNCHANGED response
     ELSE /\ reader.mode \in {"none", "response"}
          /\ IF already_consumed(response)
             THEN /\ results' = Append(results,
                      Result(kind, body_result(kind, cached_body(response))))
                  /\ UNCHANGED <<response, reader, host, call, pc>>
             ELSE /\ response' = [response EXCEPT !.consumed = TRUE,
                                                  !.drains = @ + 1]
                  /\ reader' = NewReader("response")
                  /\ host' = [host EXCEPT
                       !.streams = IF client = "async" THEN @ + 1 ELSE @]
                  /\ call' = [kind |-> kind, chunks |-> <<>>]
                  /\ pc' = "read"
                  /\ UNCHANGED results
  /\ UNCHANGED <<client, request, sent, fetched>>
  /\ UNCHANGED overlap
  /\ UNCHANGED loopVars

\* A plausible slip: read_all keeps only the latest chunk.
gather_last_only(chunks, chunk) == <<chunk>>

\* read_all: chunks.append(chunk)
gather(chunks, chunk) == Append(chunks, chunk)

\* One host read of the wrapper and what follows from it. A zero-length
\* read subscribes to the stream and suspends. In read() the value or the
\* error ends the call. In read_all a chunk is gathered and the loop reads
\* again, the end of the stream joins the chunks into the cached body, and
\* an error leaves the call (the consumed flag stays set, the cache None).
H_read(ans) ==
  /\ pc = "read"
  /\ ans \in ReadAnswers
  /\ LET r == stream_read(client, ans)
         ends == r.act = "return" /\ ans.kind # "data"
     IN /\ host' = [host EXCEPT
               !.reads = @ + 1,
               !.delivered = IF ans.kind = "data" THEN Append(@, ans.data) ELSE @,
               !.empties = IF ans.kind = "empty"
                           THEN Append(@, Len(host.delivered)) ELSE @,
               !.ended = IF ans.kind # "error" THEN @ ELSE ans.error,
               !.ssubs = IF r.act = "await" THEN @ + 1 ELSE @,
               !.sexits = IF r.released THEN @ + 1 ELSE @,
               !.bfinished = IF r.released THEN @ + 1 ELSE @]
        /\ reader' = [reader EXCEPT
               !.open = IF r.released THEN FALSE ELSE @,
               !.sawClosed = @ \/ (ans.kind = "error" /\ IsClosedSignal(ans.error))]
        /\ CASE r.act = "await" ->
                  /\ pc' = "wait-read"
                  /\ UNCHANGED <<call, results, response>>
             [] r.act = "raise" ->
                  /\ results' = Append(results,
                                  Result(call.kind, Failure("stream", r.value)))
                  /\ call' = NoCall
                  /\ pc' = "ready"
                  /\ UNCHANGED response
             [] r.act = "return" /\ call.kind = "read" ->
                  /\ results' = Append(results,
                                  Result(call.kind, Returned(r.value)))
                  /\ call' = NoCall
                  /\ pc' = "ready"
                  /\ UNCHANGED response
             [] r.act = "return" /\ call.kind # "read" /\ ~ends ->
                  /\ call' = [call EXCEPT !.chunks = gather(@, r.value)]
                  /\ UNCHANGED <<pc, results, response>>
             [] OTHER ->
                  LET body == Join(call.chunks)
                  IN /\ response' = [response EXCEPT !.cached = body]
                     /\ results' = Append(results,
                                     Result(call.kind, body_result(call.kind, body)))
                     /\ call' = NoCall
                     /\ pc' = "ready"
  /\ UNCHANGED <<client, request, sent, fetched>>
  /\ UNCHANGED overlap
  /\ Commit(IF stream_read(client, ans).act = "await"
            THEN await_register(LoopState) ELSE LoopState)
  /\ UNCHANGED <<impl, scenario, stack, runs, outcome, reent, lastPoll, lastReady>>

\* The loop runs the task's wakeup: register() returns and read()/next()
\* reads the stream again.
H_read_resume ==
  /\ pc = "wait-read"
  /\ WakeupNext
  /\ pc' = "read"
  /\ Commit(register_resume(Popped, 1))
  /\ stack' = [stack EXCEPT ![Len(stack)] = Taken(@, NextHandle)]
  /\ UNCHANGED <<client, request, sent, host, fetched, response, reader, call,
                 results>>
  /\ UNCHANGED overlap
  /\ UNCHANGED <<impl, scenario, runs, outcome, reent, lastPoll, lastReady>>

\* The coroutine, about to drain the body, hands the response to a second
\* task: loop.create_task(...) queues that task's first step, which the loop
\* runs in a later iteration.
H_spawn ==
  /\ pc = "read"
  /\ reader.mode = "response"
  /\ host.reads = 0
  /\ Len(tasks) < 1 + MaxOverlap
  /\ Commit(create_task(LoopState, 0, "result"))
  /\ UNCHANGED <<impl, scenario, stack, runs, outcome, reent, lastPoll, lastReady>>
  /\ UNCHANGED httpVars

\* The loop while the coroutine is suspended in register(): the poll step of
\* the iteration.
H_poll(ready) ==
  /\ pc \in {"wait-get", "wait-read"}
  /\ S_poll(ready) \/ E_poll(ready)

\* The loop while the coroutine is suspended: the next iteration begins.
H_iterate ==
  /\ pc \in {"wait-get", "wait-read"}
  /\ S_iter_end \/ E_iter_end

\* While the task that drains the body is suspended in register(), the loop
\* runs the first step of another task, which calls text() or bytes() on the
\* same FetchResponse: _get_body finds _body_consumed set and returns
\* self._cached_body or b"" at once, and the task ends.
H_overlap_call(kind) ==
  /\ pc = "wait-read"
  /\ reader.mode = "response"
  /\ Len(overlap) < MaxOverlap
  /\ HasNext
  /\ NextHandle.kind = "step"
  /\ kind \in CallKinds(client) \cap {"text", "bytes"}
  /\ already_consumed(response)
  /\ overlap' = Append(overlap,
                   Result(kind, body_result(kind, cached_body(response))))
  /\ Commit(TaskStep(Popped, NextHandle.task))
  /\ stack' = [stack EXCEPT ![Len(stack)] = Taken(@, NextHandle)]
  /\ UNCHANGED <<client, request, sent, pc, host, fetched, response, reader,
                 call, results>>
  /\ UNCHANGED <<impl, scenario, runs, outcome, reent, lastPoll, lastReady>>

\* ------------------------------------------------------------ specification
Init ==
  /\ impl \in Impls
  /\ scenario \in Scenarios
  /\ futs = <<>>
  /\ tasks = <<>>
  /\ pollables = <<>>
  /\ queue = <<>>
  /\ wait = <<>>
  /\ running = FALSE
  /\ stopping = FALSE
  /\ scheduled = <<>>
  /\ closed = FALSE
  /\ exception = "none"
  /\ retained = NoRetained
  /\ nseq = 0
  /\ stack = <<>>
  /\ runs = 0
  /\ ncalls = 0
  /\ outcome = NoOutcome
  /\ reent = NoOutcome
  /\ err = "none"
  /\ lastPoll = <<>>
  /\ lastReady = <<>>
  /\ pollLog = <<>>
  /\ client = "none"
  /\ request = NoRequest
  /\ sent = <<>>
  /\ pc = "idle"
  /\ host = HostIdle
  /\ fetched = NotEnded
  /\ response = NoResponse
  /\ reader = NoReader
  /\ call = NoCall
  /\ results = <<>>
  /\ overlap = <<>>

Next ==
  \/ \E n \in 0..MaxAwaits, oc \in Outcomes, kept \in BOOLEAN :
       UserCreateTask(n, oc, kept)
  \/ \E t \in 1..Len(tasks) : UserCallSoonCancel(t)
  \/ \E beh \in {"nop", "raise", "again", "reenter", "reenter-raise",
                  "resolve", "stop", "close"},
       f \in UserFutures \cup {0} : UserCallSoon(beh, f)
  \/ \E delay \in 0..MaxDelay, place \in 0..MaxCalls, beh \in Behaviours :
       UserCallLater(delay, place, beh)
  \/ \E when \in -1..MaxDelay, place \in 0..MaxCalls, beh \in Behaviours :
       UserCallAt(when, place, beh)
  \/ UserClose
  \/ UserStop
  \/ \E f \in 1..Len(futs) : UserDrop(f)
  \/ S_collect
  \/ E_collect
  \/ \E hasExc \in BOOLEAN : UserCallExceptionHandler(hasExc)
  \/ S_run_forever
  \/ \E i \in 1..Len(queue) : UserCancel(i)
  \/ UserCreateFuture
  \/ \E f \in UserFutures, st \in Outcomes, v \in 1..2 :
       UserSetResult(f, st, v)
  \/ \E arg \in RunArgs : S_run_until_complete(arg)
  \/ S_reenter
  \/ S_run_handle
  \/ S_callback_raises
  \/ \E ready \in ReadyLists(Len(wait)) : S_poll(ready)
  \/ S_no_poll
  \/ S_iter_end
  \/ \E arg \in RunArgs : E_run_until_complete(arg)
  \/ \E arg \in RunArgs : E_reenter(arg)
  \/ E_run_handle
  \/ \E ready \in ReadyLists(Len(wait)) : E_poll(ready)
  \/ E_no_poll
  \/ E_iter_end

Spec == Init /\ [][Next]_vars

\* The event loops under a fair host, for programs of coroutines (scenario
\* "tasks": user code creates tasks and calls run_until_complete, nothing
\* else): every poll call returns at least one ready index, and a call in
\* progress takes its next step (run_until_complete is sequential code that
\* nothing preempts).
FairInit == Init /\ scenario = "tasks"

FairNext ==
  \/ \E n \in 0..MaxAwaits, oc \in Outcomes, kept \in BOOLEAN :
       UserCreateTask(n, oc, kept)
  \/ \E f \in 1..Len(futs) : UserDrop(f)
  \/ E_collect
  \/ \E arg \in RunArgs : S_run_until_complete(arg)
  \/ S_run_handle
  \/ \E ready \in ReadyLists(Len(wait)) \ {<<>>} : S_poll(ready)
  \/ S_no_poll
  \/ S_iter_end
  \/ \E arg \in RunArgs : E_run_until_complete(arg)
  \/ E_run_handle
  \/ \E ready \in ReadyLists(Len(wait)) \ {<<>>} : E_poll(ready)
  \/ E_no_poll
  \/ E_iter_end

\* The steps of a run_until_complete call in progress.
RunStep ==
  \/ S_run_handle
  \/ \E ready \in ReadyLists(Len(wait)) \ {<<>>} : S_poll(ready)
  \/ S_no_poll
  \/ S_iter_end
  \/ E_run_handle
  \/ \E ready \in ReadyLists(Len(wait)) \ {<<>>} : E_poll(ready)
  \/ E_no_poll
  \/ E_iter_end

FairSpec == FairInit /\ [][FairNext]_vars /\ WF_vars(RunStep)

\* The HTTP exchange on its own: one client, one request, the host's
\* answers chosen freely. The event loop is at rest.
HttpInit ==
  /\ client \in Clients
  /\ impl = ClientImpl(client)
  /\ scenario = "tasks"
  /\ futs = HttpEntered(ClientImpl(client)).futs
  /\ tasks = HttpEntered(ClientImpl(client)).tasks
  /\ pollables = <<>>
  /\ queue = <<>>
  /\ wait = <<>>
  /\ running = TRUE
  /\ stopping = FALSE
  /\ scheduled = <<>>
  /\ closed = FALSE
  /\ exception = "none"
  /\ retained = NoRetained
  /\ nseq = HttpEntered(ClientImpl(client)).nseq
  /\ stack = <<HttpFrame>>
  /\ runs = 1
  /\ ncalls = 0
  /\ outcome = NoOutcome
  /\ reent = NoOutcome
  /\ err = "none"
  /\ lastPoll = <<>>
  /\ lastReady = <<>>
  /\ pollLog = <<>>
  /\ request \in Requests
  /\ client = "send" => request.payload = "none"
  /\ sent = <<>>
  /\ pc = "start"
  /\ host = HostIdle
  /\ fetched = NotEnded
  /\ response = NoResponse
  /\ reader = NoReader
  /\ call = NoCall
  /\ results = <<>>
  /\ overlap = <<>>

HttpNext ==
  \/ H_fetch_start
  \/ H_get_not_yet
  \/ H_get_resume
  \/ \E ready \in ReadyLists(Len(wait)) : H_poll(ready)
  \/ H_iterate
  \/ H_spawn
  \/ \E res \in HostResults(client) : H_get_result(res)
  \/ \E kind \in CallKinds(client) : H_call_start(kind)
  \/ \E ans \in ReadAnswers : H_read(ans)
  \/ H_read_resume
  \/ \E kind \in CallKinds(client) : H_overlap_call(kind)

HttpSpec == HttpInit /\ [][HttpNext]_vars

\* ------------------------------------------------------------ properties
Frames == 1..Len(stack)

\* The step is a host poll made by the innermost running iteration.
Polled ==
  /\ stack # <<>>
  /\ Len(stack') = Len(stack)
  /\ stack'[Len(stack)].polls = Top.polls + 1

\* Pollables of the tasks suspended in register() on an unresolved future.
Outstanding ==
  {tasks[t].waitingOn : t \in {u \in 1..Len(tasks) :
       tasks[u].waitingOn # 0 /\ futs[tasks[u].waker].state = "pending"}}

NoRepeats(q) == \A i, j \in 1..Len(q) : q[i] = q[j] => i = j

\* The step is a host poll call of the innermost running iteration: one
\* that completed, or one of the examples loop whose sweep raised, which
\* ends the call.
PollCalled ==
  \/ Polled
  \/ /\ impl = "examples"
     /\ BatchDone
     /\ wait # <<>>
     /\ Len(stack') < Len(stack)

PollableOf(f) ==
  LET t == CHOOSE u \in 1..Len(tasks) : tasks[u].waker = f
  IN tasks[t].waitingOn

Wakers == {f \in 1..Len(futs) : futs[f].kind = "waker"}

\* The step runs the callback Task.cancel of the task that awaits waker f.
CancelsTaskOf(f) ==
  /\ HasNext
  /\ NextHandle.kind = "user"
  /\ NextHandle.beh = "cancel"
  /\ ~NextHandle.cancelled
  /\ tasks[NextHandle.task].waker = f

\* C2 as amended (no cross-talk): a future made by register(p) gets its
\* result only in a host poll step whose returned indices name the position
\* of p in the list passed to that poll; the one other way it leaves the
\* pending state is cancelled, in the step that runs Task.cancel() of the
\* very task that awaits it; and a task leaves register() only once its own
\* future is done.
C2_OwnPollableOrOwnCancel ==
  [][/\ \A f \in Wakers :
          (futs[f].state = "pending" /\ futs'[f].state # "pending") =>
             \/ /\ futs'[f].state = "result"
                /\ PollCalled
                /\ \E j \in 1..Len(lastReady') :
                     lastPoll'[lastReady'[j]] = PollableOf(f)
             \/ /\ futs'[f].state = "cancelled"
                /\ CancelsTaskOf(f)
     /\ \A t \in 1..Len(tasks) :
          (tasks[t].waitingOn # 0 /\ tasks'[t].waitingOn # tasks[t].waitingOn)
             => futs[tasks[t].waker].state # "pending"]_vars

\* C2 as stated (no cross-talk): a future made by register(p) is resolved
\* only by a host poll step whose returned indices name the position of p in
\* the list passed to that poll, and a task leaves register() only once its
\* own future is resolved.
C2_NoCrossTalk ==
  [][/\ \A f \in Wakers :
          (futs[f].state = "pending" /\ futs'[f].state # "pending") =>
             /\ Polled
             /\ \E j \in 1..Len(lastReady') :
                  lastPoll'[lastReady'[j]] = PollableOf(f)
     /\ \A t \in 1..Len(tasks) :
          (tasks[t].waitingOn # 0 /\ tasks'[t].waitingOn # tasks[t].waitingOn)
             => futs[tasks[t].waker].state # "pending"]_vars

\* Two tasks waited, the host named one, and only that one was resolved.
C2_Witness ==
  /\ stack # <<>>
  /\ Top.pc = "check"
  /\ Len(lastPoll) = 2
  /\ Len(lastReady) = 1
  /\ \E t, u \in 1..Len(tasks) :
       /\ tasks[t].waitingOn = lastPoll[lastReady[1]]
       /\ futs[tasks[t].waker].state = "result"
       /\ tasks[u].waitingOn # 0
       /\ futs[tasks[u].waker].state = "pending"

CloseEvents(p) ==
  {i \in 1..Len(pollLog) : pollLog[i].ev = "close" /\ pollLog[i].pollable = p}

\* C3 (pollable release, examples loop): after the poll of an iteration,
\* each pollable whose index the host returned has been closed exactly once,
\* right before its waker was resolved, however often the index was
\* returned; a pollable that was not returned has not been closed; and no
\* pollable is ever closed twice.
C3_ReleaseOnReady ==
  impl = "examples" =>
    /\ \A p \in 1..Len(pollables) : pollables[p].closed <= 1
    /\ (stack # <<>> /\ Top.pc = "check" /\ Top.polls = 1) =>
         \A i \in 1..Len(lastPoll) :
           IF i \in Range(lastReady)
           THEN /\ Cardinality(CloseEvents(lastPoll[i])) = 1
                /\ pollables[lastPoll[i]].closed = 1
                /\ \A k \in CloseEvents(lastPoll[i]) :
                     /\ k < Len(pollLog)
                     /\ pollLog[k + 1].ev = "resolve"
                     /\ pollLog[k + 1].pollable = lastPoll[i]
                /\ \A k \in 1..Len(pollLog) :
                     (pollLog[k].ev = "resolve" /\ pollLog[k].pollable = lastPoll[i])
                       => k > 1 /\ pollLog[k - 1].ev = "close"
                                /\ pollLog[k - 1].pollable = lastPoll[i]
           ELSE /\ CloseEvents(lastPoll[i]) = {}
                /\ pollables[lastPoll[i]].closed = 0

\* C4 (no pollable leak, sdk): every pollable a task passed to register()
\* and has since resumed from is closed.
C4_NoPollableLeak ==
  impl = "sdk" =>
    \A p \in 1..Len(pollables) :
      tasks[pollables[p].owner].waitingOn # p => pollables[p].closed >= 1

\* C5 (run to completion, sdk): a run_until_complete(f) call of a program
\* of coroutines ends only with f done, returning f's result or raising f's
\* exception, whichever call on the loop instance it is.
C5_RunsToCompletion ==
  (impl = "sdk" /\ scenario = "tasks" /\ outcome.kind # "none") =>
    /\ futs[outcome.fut].state # "pending"
    /\ outcome.what = futs[outcome.fut].state

\* C6 (re-entrancy rejected): when a callback of a running loop calls
\* run_until_complete, the call raises the state error and starts nothing:
\* no frame is added, and the running flag, the ready queue and the wait
\* table are as the callback found them. The callback is one that catches
\* the error, so that the step shows the call alone.
C6_ReentryRejected ==
  [][(HasNext /\ IsReenter(NextHandle) /\ Catches(NextHandle)) =>
       /\ reent'.what = "already-running"
       /\ Len(stack') = Len(stack)
       /\ running' = running
       /\ queue' = Popped.queue
       /\ wait' = wait]_vars

\* C7 (single resolution): a future from create_future() that has been
\* resolved keeps its state and value whatever is tried on it afterwards; a
\* further set_result or set_exception by user code fails with
\* InvalidStateError; and a run_until_complete on the resolved future that
\* ends at its `return future.result()` yields the first outcome.
C7_SingleResolution ==
  [][/\ \A f \in 1..Len(futs) :
          futs[f].state # "pending" =>
            /\ futs'[f].state = futs[f].state
            /\ futs'[f].value = futs[f].value
     /\ \A f \in UserFutures, st \in Outcomes, v \in 1..2 :
          (futs[f].state # "pending" /\ UserSetResult(f, st, v)) =>
            err' = "InvalidStateError"
     /\ (HasNext /\ NextHandle.kind = "user" /\ NextHandle.beh = "resolve"
           /\ ~NextHandle.cancelled /\ futs[NextHandle.fut].state # "pending")
          => err' = "InvalidStateError"
     /\ (/\ stack # <<>> /\ stack' = <<>> /\ exception = "none"
         /\ outcome'.fut \in UserFutures
         /\ futs[outcome'.fut].state # "pending") =>
          /\ futs[outcome'.fut].state = outcome'.what
          /\ futs[outcome'.fut].value = outcome'.value]_vars

\* A second resolution was tried on a resolved future and refused, and a
\* run on that future has returned its value.
C7_Witness ==
  /\ err = "InvalidStateError"
  /\ outcome.kind = "return"
  /\ outcome.fut \in UserFutures
  /\ futs[outcome.fut].value = outcome.value

Seqs(q) == {q[i].seq : i \in 1..Len(q)}
PositionIn(q, n) == CHOOSE i \in 1..Len(q) : q[i] = n

\* C8 (FIFO callback order): in every iteration of either loop, the handles
\* it has run were all pending when it began and were run in the order
\* call_soon received them; and once its callbacks are done, every handle
\* that was pending when it began has been run, the cancelled ones excepted.
C8_FifoOrder ==
  \A k \in Frames :
    LET fr == stack[k] IN
    /\ Range(fr.ran) \subseteq Seqs(fr.pending0)
    /\ \A i, j \in 1..Len(fr.ran) : i < j => fr.ran[i] < fr.ran[j]
    /\ \A a, b \in Range(fr.pending0) :
         (a.seq < b.seq /\ b.seq \in Range(fr.ran) /\ ~a.cancelled) =>
            /\ a.seq \in Range(fr.ran)
            /\ PositionIn(fr.ran, a.seq) < PositionIn(fr.ran, b.seq)
    /\ fr.pc = "check" =>
         \A h \in Range(fr.pending0) : ~h.cancelled => h.seq \in Range(fr.ran)

\* An iteration has run two user callbacks that were pending together when
\* it began.
C8_Witness ==
  /\ stack # <<>>
  /\ Top.pc = "check"
  /\ \E a, b \in Range(Top.pending0) :
       /\ a.kind = "user" /\ b.kind = "user" /\ a.seq < b.seq
       /\ a.seq \in Range(Top.ran) /\ b.seq \in Range(Top.ran)

\* C9 (deferred failure propagation, examples loop): a raising callback
\* leaves its exception with the loop and the iteration goes on with the
\* rest of its batch; run_until_complete raises the kept exception only from
\* the end of an iteration, after the batch has been run; and an iteration
\* that ends with an exception kept does raise it.
C9_DeferredFailure ==
  [][impl = "examples" =>
       /\ (HasNext /\ IsRaise(NextHandle)) =>
            /\ exception' = "callback-error"
            /\ Len(stack') = Len(stack)
            /\ stack'[Len(stack)].batch = Tail(Top.batch)
            /\ stack'[Len(stack)].pc = "callbacks"
       /\ (stack # <<>> /\ Len(stack') < Len(stack)
             /\ (IF Len(stack) = 1 THEN outcome' ELSE reent').what
                  = "callback-error") =>
            /\ Top.pc = "check"
            /\ \A h \in Range(Top.pending0) :
                 ~h.cancelled => h.seq \in Range(Top.ran)
       /\ (stack # <<>> /\ Top.pc = "check" /\ exception # "none") =>
            /\ Len(stack') < Len(stack)
            /\ (IF Len(stack) = 1 THEN outcome' ELSE reent')
                 = Raised(exception, Top.top)]_vars

\* An iteration has finished its batch, in which a callback raised and a
\* later callback still ran, and the exception waits to be raised.
C9_Witness ==
  /\ impl = "examples"
  /\ stack # <<>>
  /\ Top.pc = "check"
  /\ exception = "callback-error"
  /\ \E a, b \in Range(Top.pending0) :
       /\ IsRaise(a) /\ a.seq < b.seq
       /\ a.seq \in Range(Top.ran) /\ b.seq \in Range(Top.ran)

EntryFutures == {wait[i].fut : i \in 1..Len(wait)}

\* C10 (wait entry iff unresolved): at the end of an iteration the wait
\* table holds an entry for exactly the register() futures that are
\* unresolved.
C10_EntryIffUnresolved ==
  (stack # <<>> /\ Top.pc = "check") =>
    \A f \in Wakers : f \in EntryFutures <=> futs[f].state = "pending"

\* ------------------------------------------------------------ HTTP properties
\* fetch()/send() got past the request and asked the future for its result.
Asked == pc \notin {"idle", "start"} /\ fetched.what # "NameError"

\* C11. fetch()/send() call the response future's get() until it gives a
\* definitive result: every 'not yet' answer is followed by one subscribe()
\* and one await of that pollable, so after k such answers exactly k
\* pollables have been subscribed and awaited and get() has been called
\* again after each await; unwrapping happens only on a get() that gave a
\* result, and no response or exception comes out of a 'not yet' answer.
C11_LoopUntilDefinitive ==
  /\ host.subs = host.notyet
  /\ pc = "wait-get" => host.gets = host.notyet /\ host.result = NoResult
  /\ pc = "get" => host.gets = host.notyet /\ host.result = NoResult
  /\ (pc \in {"get", "wait-get"}) => fetched = NotEnded
  /\ (Asked /\ pc \notin {"get", "wait-get"}) =>
       /\ host.result # NoResult
       /\ host.gets = host.notyet + 1
       /\ fetched = unwrap(client, host.result)

\* Two 'not yet' answers, two awaits, and then a response.
C11_Witness ==
  /\ host.notyet >= 2
  /\ host.subs = host.notyet
  /\ fetched = Returned("response")
  /\ pc = "ready"

\* The settled results of the two failure levels.
OuterFailed(res) == res.outer = "err"
InnerFailed(res) == res.outer = "ok" /\ res.inner = "err"

\* C12. When the settled result is a transport-level error fetch() raises,
\* and when it is a transport success around a protocol-level error fetch()
\* raises; the exception of the one case never equals that of the other, and
\* in both cases consume() has not been called, no stream was taken and no
\* FetchResponse exists.
C12_TwoLevelUnwrap ==
  /\ (client \in {"sdk", "async"} /\ host.result # NoResult
        /\ (OuterFailed(host.result) \/ InnerFailed(host.result))) =>
       /\ fetched.kind = "raise"
       /\ pc = "failed"
       /\ host.consume = 0
       /\ host.streams = 0
       /\ response = NoResponse
       /\ results = <<>>
  /\ \A c \in {"sdk", "async"} :
       \A ro \in HostResults(c), ri \in HostResults(c) :
         (OuterFailed(ro) /\ InnerFailed(ri)) =>
           /\ unwrap(c, ro).kind = "raise"
           /\ unwrap(c, ri).kind = "raise"
           /\ unwrap(c, ro) # unwrap(c, ri)

\* The sdk's fetch() has raised on a protocol-level error inside a transport
\* success.
C12_Witness ==
  /\ client = "sdk"
  /\ InnerFailed(host.result)
  /\ host.result.style = "methods"
  /\ fetched.kind = "raise"
  /\ fetched.what = "HTTP request failed"

\* read_all of the response's wrapper ran to the closed signal of the host.
DrainedToClose ==
  reader.mode = "response" /\ reader.sawClosed /\ host.ended = "closed"

\* C13. While read_all runs, the chunks it holds are the chunks the host has
\* delivered, in delivery order, whatever zero-length reads came between
\* them; a zero-length read never ends the body; when the host then signals
\* closed, the body is their concatenation and the call that drained
\* returns text()/bytes()/json() of exactly that.
C13_BodyReassembly ==
  /\ (pc \in {"read", "wait-read"} /\ call.kind # "read") =>
       call.chunks = host.delivered
  /\ response.cached # None => host.ended # "open"
  /\ DrainedToClose =>
       /\ response.cached = Join(host.delivered)
       /\ Len(results) >= 1
       /\ results[1].out = body_result(results[1].kind, Join(host.delivered))

\* Two chunks with a zero-length read between them, then closed: text() gave
\* the three characters in order.
C13_Witness ==
  /\ DrainedToClose
  /\ host.delivered = << <<50, 120>>, <<49>> >>
  /\ 1 \in Range(host.empties)
  /\ results[1].kind = "text"
  /\ results[1].out = Returned(<<"2", "x", "1">>)

\* C14. Once a stream wrapper has been answered with the host's closed
\* signal, no later step calls the host stream's read or subscribe for it:
\* every further read()/next() returns the end-of-stream value by itself.
C14_ReadAfterClose ==
  [][reader.sawClosed =>
       /\ host'.reads = host.reads
       /\ host'.ssubs = host.ssubs
       /\ (Len(results') > Len(results)
             /\ results'[Len(results')].kind = "read") =>
            results'[Len(results')].out = Returned(Eof(client))
    ]_vars

\* The first drain of the response ended with a body.
Drained == response.cached # None

\* C15. The body of a FetchResponse is drained at most once; after a drain
\* that ended with a body every text()/bytes()/json() call, the draining one
\* and each later one, gives the value of that same body, and no read of
\* the stream is in progress any more.
C15_CacheCoherence ==
  /\ response.drains <= 1
  /\ Drained =>
       /\ response.drains = 1
       /\ pc = "ready"
       /\ call = NoCall
       /\ \A i \in 1..Len(results) :
            results[i].out = body_result(results[i].kind, response.cached)

\* text(), bytes() and text() again on a drained two-chunk body.
C15_Witness ==
  /\ Drained
  /\ Len(response.cached) = 3
  /\ Len(results) = 3
  /\ results[1].kind = "text"
  /\ results[2].kind = "bytes"
  /\ results[3].kind = "text"
  /\ results[3].out = results[1].out
  /\ results[2].out = Returned(response.cached)

\* The drain started by the first body call was ended by a stream error.
DrainFailed ==
  /\ reader.mode = "response"
  /\ Len(results) >= 1
  /\ results[1].out.kind = "raise"
  /\ results[1].out.what = "stream"

\* C16. When the drain started by the first text()/bytes()/json() call ends
\* with a stream error, that call raises, and no later text()/bytes()/json()
\* call on the response returns a value.
C16_NoPartialBodyFallback ==
  DrainFailed =>
    \A j \in 2..Len(results) : results[j].out.kind = "raise"

\* The cached body is not a JSON document.
NotJson(body) == \E i \in 1..Len(body) : body[i] \notin {49, 50}

\* The body call that ended in this step, if one did.
Ended(kind) ==
  /\ Len(results') = Len(results) + 1
  /\ results'[Len(results')].kind = kind

\* C17. On a response whose body is not valid JSON, json() raises a decode
\* error and text() returns the whole body, whichever is called first and
\* however often; a finished drain is never repeated and nothing, a failed
\* json() included, changes the cached body.
C17_DecodeFailureIsolated ==
  [][/\ Drained => response' = response
     /\ (Drained' /\ NotJson(response'.cached)) =>
          /\ Ended("json") =>
               /\ results'[Len(results')].out.kind = "raise"
               /\ results'[Len(results')].out.what = "JSONDecodeError"
          /\ Ended("text") =>
               results'[Len(results')].out = Returned(decode(response'.cached))
    ]_vars

\* text(), a failed json() and text() again on the body "2x".
C17_Witness ==
  /\ response = [consumed |-> TRUE, cached |-> <<50, 120>>, drains |-> 1]
  /\ Len(results) = 3
  /\ results[1] = Result("text", Returned(<<"2", "x">>))
  /\ results[2].kind = "json"
  /\ results[2].out.what = "JSONDecodeError"
  /\ results[3] = Result("text", Returned(<<"2", "x">>))

\* The host stream has just failed: a read raised an error that is not the
\* closed signal.
StreamFails ==
  /\ host.ended = "open"
  /\ host'.ended \in StreamErrors
  /\ ~IsClosedSignal(host'.ended)

\* C18. When a read of the host stream fails with an error other than the
\* closed signal, the words of its message notwithstanding, the
\* read()/next() call in progress ends by raising that very error: it does
\* not return and no body is made of what was read so far.
C18_ErrorsAreNotEof ==
  [][StreamFails =>
       /\ Len(results') = Len(results) + 1
       /\ results'[Len(results')].out.kind = "raise"
       /\ results'[Len(results')].out.what = "stream"
       /\ results'[Len(results')].out.detail = host'.ended
       /\ response'.cached = None
       /\ reader'.open
    ]_vars

\* C19. In one exchange the response's consume() and the body's stream() are
\* each called at most once, however many text()/bytes()/json() calls are
\* made and however the drain ended: fetch() calls consume() once, stream()
\* is called once by fetch() (sdk) or by the first drain (examples), and a
\* later body call calls neither.
C19_SingleConsumption ==
  /\ host.consume <= 1
  /\ host.streams <= 1
  /\ (client \in {"sdk", "async"} /\ pc \in {"ready", "read", "wait-read"}) =>
       /\ host.consume = 1
       /\ response.consumed => host.streams = 1

\* The examples' FetchResponse after a failed drain and two more body calls.
C19_Witness ==
  /\ client = "async"
  /\ DrainFailed
  /\ Len(results) = 3
  /\ host.consume = 1
  /\ host.streams = 1

\* The content-type headers among a list of headers, in any letter case.
ContentTypes(hs) ==
  {i \in 1..Len(hs) : Lower(hs[i].name) = "content-type"}

\* C20. A request that fetch(url, json=...) hands to the host carries
\* exactly one content-type header: the caller's own when the caller's
\* headers have one in any letter case, nothing being added then, and
\* 'application/json' added by fetch() otherwise.
C20_JsonContentTypeWhenAbsent ==
  (client \in {"sdk", "async"} /\ request.payload = "json"
     /\ host.handled = 1) =>
    /\ Cardinality(ContentTypes(sent)) = 1
    /\ IF ContentTypes(request.headers) # {}
       THEN sent = request.headers
       ELSE sent = request.headers \o
                   <<[name |-> "content-type", value |-> "application/json"]>>

\* Both levels of the settled result are successful.
BothOk(res) == res.outer = "ok" /\ res.inner = "ok"

\* C21. Whenever both levels of the settled result are successful, fetch()
\* returns a FetchResponse, whatever the status code, and raises nothing;
\* the response's ok is true exactly for the status codes 200 to 299.
C21_TransportSuccess ==
  (client \in {"sdk", "async"} /\ BothOk(host.result)) =>
    /\ fetched = Returned("response")
    /\ ok(host.result.status) <=> host.result.status \in 200..299

\* ------------------------------------------------------------ loop properties
\* C23. When the callbacks of an iteration have been run and the future
\* run_until_complete waits for is done, the iteration makes no host poll,
\* also when other tasks have pollables in the wait table.
C23_NoPollAfterCompletion ==
  [][(BatchDone /\ TopDone) => ~Polled]_vars

\* The resolve events of this iteration's poll, and the place of a pollable
\* in the host's answer (its first place when the host named it twice).
ResolveEvents == {i \in 1..Len(pollLog) : pollLog[i].ev = "resolve"}

Named(p) == {j \in 1..Len(lastReady) : lastPoll[lastReady[j]] = p}

FirstNamed(p) == CHOOSE j \in Named(p) : \A k \in Named(p) : j <= k

\* C24. When a host poll of the examples loop has returned several indices,
\* the waiter futures have been resolved in the order in which the host
\* returned their indices.
C24_ResolutionFollowsHost ==
  (impl = "examples" /\ stack # <<>> /\ Top.pc = "check" /\ Top.polls = 1) =>
    \A a, b \in ResolveEvents :
      a < b => FirstNamed(pollLog[a].pollable) < FirstNamed(pollLog[b].pollable)

Ascending(q) == \A i, j \in 1..Len(q) : i < j => q[i].seq < q[j].seq

\* The step begins an iteration of the innermost run_until_complete call.
IterationBegins ==
  /\ stack' # <<>>
  /\ stack'[Len(stack')].pc = "callbacks"
  /\ stack'[Len(stack')].ran = <<>>
  /\ \/ stack = <<>>
     \/ Len(stack') > Len(stack)
     \/ Top.pc = "check"

\* The handles of the ready queue that call_soon added after the running
\* iteration took its batch.
AddedSince(fr) == {h \in Range(queue) : h.seq \notin Seqs(fr.pending0)}

\* C25. In both loops an iteration runs only handles that were in the ready
\* queue when it began: a handle call_soon adds while the callbacks of an
\* iteration are run stays in the queue, behind every handle added before
\* it, and is not run by that iteration; the next iteration the loop begins
\* takes every queued handle, in the order call_soon received them.
C25_CallSoonDefers ==
  [][/\ Ascending(queue')
     /\ \A k \in 1..Len(stack') :
          /\ Range(stack'[k].ran) \subseteq Seqs(stack'[k].pending0)
          /\ Ascending(stack'[k].pending0)
     /\ (stack # <<>> /\ Len(stack') = Len(stack) /\ Top.pc = "callbacks"
           /\ stack'[Len(stack)].pc = "callbacks") =>
          \A h \in Range(queue') :
            h.seq > nseq =>
              /\ h.seq \notin Seqs(stack'[Len(stack)].pending0)
              /\ h.seq \notin Range(stack'[Len(stack)].ran)
              /\ \A g \in Range(queue') : g.seq <= nseq => g.seq < h.seq
     /\ IterationBegins =>
          Seqs(queue) \subseteq Seqs(stack'[Len(stack')].pending0)
    ]_vars

\* An iteration has run its whole batch, one of its callbacks has scheduled
\* another callback, and that one waits in the queue: the iteration has not
\* run it.
C25_Witness ==
  /\ stack # <<>>
  /\ Top.pc = "check"
  /\ \E a \in Range(Top.pending0) :
       /\ a.kind = "user" /\ a.beh = "again" /\ a.seq \in Range(Top.ran)
  /\ \E h \in AddedSince(Top) :
       /\ h.kind = "user"
       /\ h.seq \notin Range(Top.ran)
       /\ \A g \in Range(Top.pending0) : g.seq < h.seq

\* ------------------------------------------------------------ HTTP properties, continued
\* C26. A fetch() call with a body or a json payload writes the body to the
\* request's outgoing body, finishes the outgoing body, and then hands the
\* request to the host exactly once; it does not fail before that.
C26_BodySubmitted ==
  (client \in {"sdk", "async"} /\ request.payload \in {"body", "json"}
     /\ pc # "start") =>
    /\ host.written = 1
    /\ host.finished = 1
    /\ host.handled = 1
    /\ fetched.what # "NameError"

\* C27. When a second task calls bytes()/text() on a FetchResponse while the
\* first task's drain is in progress, every such call that returns gives the
\* complete body, the one the drain ends with.
C27_OverlappingReads ==
  Drained =>
    \A i \in 1..Len(overlap) :
      overlap[i].out.kind = "return" =>
        overlap[i].out = body_result(overlap[i].kind, response.cached)

\* ------------------------------------------------------------ loop properties, continued
\* C28. Whenever either loop invokes the host poll, its ready queue is
\* empty: no callback that is ready to run waits for a pollable of some other
\* task to become ready.
C28_NoRunnableHeldBack ==
  [][Polled => queue = <<>>]_vars

\* A callback of the iteration the top-level call is in has failed: a raising
\* callback was run in it, or a callback that made a nested call.
FailedHere ==
  \E i \in 1..Len(Top.pending0) :
    /\ Top.pending0[i].seq \in Range(Top.ran)
    /\ IsRaise(Top.pending0[i]) \/ IsReenter(Top.pending0[i])

\* C30. In the examples loop a captured callback exception is raised once: a
\* top-level run_until_complete call that ends in an iteration in which no
\* callback failed returns its own future's result, also when an earlier call
\* on the same loop raised a captured exception. (Exceptions the loop was
\* handed by something other than a callback are left aside.)
C30_RaisedOnce ==
  [][(impl = "examples" /\ Len(stack) = 1 /\ stack' = <<>> /\ ~FailedHere
        /\ exception \in {"none", "callback-error"})
       => outcome' = FutureResult(LoopState, Top.top)]_vars

\* The waker register() created together with pollable p: the p-th future of
\* kind "waker".
WakerOf(p) ==
  CHOOSE f \in 1..Len(futs) :
    /\ futs[f].kind = "waker"
    /\ Cardinality({g \in 1..f : futs[g].kind = "waker"}) = p

\* The positions of the last poll's list that the host named ready.
NamedReady == Range(lastReady)

\* C29. A cancelled waiter does not break the loop: when the host names
\* ready a pollable whose waiting task was cancelled while suspended on it,
\* that pollable is released, neither run_until_complete nor a nested call raises
\* InvalidStateError, and every pollable named ready by the same poll call has
\* its waiter resolved and its entry out of the wait table. (A loop that
\* keeps the cancelled entry out of its polls never meets the case.)
C29_AbandonedWaiter ==
  \A i \in NamedReady :
    futs[WakerOf(lastPoll[i])].state = "cancelled" =>
      /\ pollables[lastPoll[i]].closed >= 1
      /\ outcome.what # "InvalidStateError"
      /\ reent.what # "InvalidStateError"
      /\ \A j \in NamedReady :
           /\ Done(LoopState, WakerOf(lastPoll[j]))
           /\ \A e \in Range(wait) : e.pollable # lastPoll[j]

\* The top-level call in progress was given a task (a coroutine, wrapped).
TopIsTask ==
  stack # <<>> /\ stack[1].top # 0 /\ futs[stack[1].top].kind = "task"

\* The n-th top-level call has ended with what its own future holds: it
\* returned the coroutine's result or raised the coroutine's exception.
EndedWithOwn(n) ==
  /\ stack = <<>>
  /\ runs = n
  /\ outcome.kind # "none"
  /\ outcome = FutureResult(LoopState, outcome.fut)

\* C22. Completion under a fair host: when every poll call returns at least
\* one ready index, every run_until_complete call on a coroutine that awaits
\* finitely many pollables (fetch() until the response future settles, then
\* text() until the body stream is closed) eventually ends, and it ends by
\* returning the coroutine's result or by raising the coroutine's failure;
\* the loop neither spins nor blocks forever.
C22_Completion ==
  \A n \in 1..MaxRuns : (TopIsTask /\ runs = n) ~> EndedWithOwn(n)

====
